---- MODULE Spec2Model ----
(***************************************************************************)
(* MidiRecorder (src/unnamed/part_004): live MIDI capture, the Standard    *)
(* MIDI File encoder convertNotesToMidiFile with its helper                *)
(* encodeVariableLength, the WAV writer createWaveFile, the audio export   *)
(* downloadAsMP3 and the playback of a take; and the audio export of the   *)
(* preview modal (src/client/src/components/FileList/FilePreviewModal.tsx).*)
(*                                                                         *)
(* The specifications share the variables:                                 *)
(*   Spec       the capture state machine of the component (device         *)
(*              refresh, input selection, start/stop recording, the        *)
(*              note-on and note-off listeners, the recording timer);      *)
(*   SpecEnc    convertNotesToMidiFile applied to a take and a file name   *)
(*              drawn from bounded sets;                                   *)
(*   SpecIdem   convertNotesToMidiFile called again on the same take,      *)
(*              the File Name field edited in between;                     *)
(*   SpecVLQ    encodeVariableLength applied to a value drawn from a       *)
(*              bounded set;                                               *)
(*   SpecWav    createWaveFile of the recorder and of the modal applied    *)
(*              to a buffer drawn from bounded sets;                       *)
(*   SpecExport downloadAsMP3 on a stopped take, or exportMidiAsAudio on   *)
(*              a parsed file, with renders that succeed or fail and a     *)
(*              synth that may reject pitches;                             *)
(*   SpecPlay   playMidiRecording, its asynchronous start and timeouts,    *)
(*              stopMidiPlayback and deleteRecording on a stopped take.    *)
(*                                                                         *)
(* Units: times are integer milliseconds (Date.now()); a velocity and an   *)
(* audio sample are kept in thousandths (800 stands for the float 0.8).    *)
(***************************************************************************)
EXTENDS Integers, Sequences, FiniteSets, TLC

VARIABLES
  modalFile,      \* the modal's file prop: id of the file previewed (0 is null)
  modalOpen,      \* the modal's open prop
  loading,        \* useState loading of the modal
  fetches,        \* ids of the files whose fetch(url) of the modal is in flight
  midiDataOf,     \* id of the file the bytes in midiData were fetched for (0: none)
  audioOf,        \* id of the file whose bytes audioGenerated was rendered from (0: none)
  rendering,      \* the modal export in progress: the file of its bytes, the file of its name
  saving,         \* the modal's upload in progress: the file of its audio, the file of its name
  exported,       \* audio the modal handed out: the file of the audio, the file of the name
  tags,           \* useState tags
  saveSuccess,    \* useState saveSuccess
  upload,         \* the filesAPI.uploadFile call of saveRecording in flight
  completions,    \* arguments of the onRecordingComplete calls, in order
  toneContext,    \* the context Tone.getContext() returns: "realtime" or "offline"
  synthContext,   \* the context synthRef.current was created on
  voices,         \* pitches attacked on synthRef.current and not released
  played,         \* indices of sortedNotes triggered since the last Play, in order
  now,            \* Date.now(), in ms since the component was mounted
  connected,      \* ids of WebMidi.inputs, in port order
  pendingInit,    \* initializeMidi calls awaiting WebMidi.enable()
  midiEnabled,    \* useState midiEnabled
  selectedInput,  \* useState selectedInput (0 is the empty string)
  connectionError,\* useState connectionError ("none" is null)
  isRecording,    \* useState isRecording
  recordingTime,  \* useState recordingTime (timer ticks)
  timerRef,       \* timerRef.current: TRUE while an interval is registered
  listeners,      \* per input id, the registered listener pairs (their startTime)
  dispatch,       \* listener callbacks of the MIDI message being delivered
  recordedNotes,  \* useState recordedNotes
  midiInputs,     \* useState midiInputs (the ports listed at the last refresh)
  timerDue,       \* time at which the recording interval fires next
  fileName,       \* useState fileName, as a sequence of UTF-16 code units
  midiFile,       \* bytes returned by convertNotesToMidiFile (<<>> before the call)
  encPc,          \* "idle"; "input" before convertNotesToMidiFile ran, "done" after, "again" after a further call
  value,          \* argument of encodeVariableLength
  vlqBytes,       \* result of encodeVariableLength (<<>> before the call)
  vlqPc,          \* "idle"; "input" before encodeVariableLength ran, "done" after
  audioData,      \* createWaveFile's audioData: interleaved samples, in thousandths
  sampleRate,     \* createWaveFile's sampleRate
  numChannels,    \* createWaveFile's numChannels (0 while no call is set up)
  wavFile,        \* bytes returned by the recorder's createWaveFile (<<>> before the call)
  modalWavFile,   \* bytes returned by the preview modal's createWaveFile (<<>> before the call)
  isSaving,       \* useState isSaving
  saveError,      \* useState saveError ("none" is null)
  exportPc,       \* downloadAsMP3: "ready", "primary" / "fallback" (awaiting that render), "finished"
  offlineContext, \* the Tone.OfflineContext created last: channels and length in ms
  scheduled,      \* triggerAttackRelease calls accepted by the offline synth created last
  synthRejects,   \* pitches on which the offline synth's triggerAttackRelease throws
  fallbacks,      \* fallbackRendering calls of the export in progress or finished last
  downloaded,     \* channel counts of the WAV files handed to downloadBlob by that export
  midiData,       \* modal: "closed" (not mounted), "none" (null), "invalid", or the notes @tonejs/midi parses from it
  exportStatus,   \* modal: useState exportStatus
  audioGenerated, \* modal: useState audioGenerated (TRUE when a blob is held)
  modalPc,        \* exportMidiAsAudio: "ready", "rendering" (awaiting the render), "finished"
  isPlaying,      \* useState isPlaying
  currentNoteIndexRef, \* currentNoteIndexRef.current
  playbackTimerRef,    \* playbackTimerRef.current: a timeout id, 0 is null
  pendingStarts,  \* Tone.start() promises of playMidiRecording not yet settled, each with the recordedNotes of its closure
  timers,         \* timeouts set by playback and not yet fired or cleared: id, kind ("next" / "end"), sortedNotes of the closure
  stopped         \* history: stopMidiPlayback has run and playMidiRecording was not invoked since

captureVars == <<now, connected, pendingInit, midiEnabled, selectedInput,
                 connectionError, isRecording, recordingTime, timerRef,
                 listeners, dispatch, midiInputs, timerDue>>
encVars == <<fileName, midiFile, encPc>>
vlqVars == <<value, vlqBytes, vlqPc>>
wavVars == <<audioData, sampleRate, numChannels, wavFile, modalWavFile>>
renderVars == <<offlineContext, scheduled, synthRejects, downloaded>>
exportVars == <<isSaving, saveError, exportPc, fallbacks>>
modalVars == <<midiData, exportStatus, audioGenerated, modalPc>>
playVars == <<isPlaying, currentNoteIndexRef, playbackTimerRef, pendingStarts,
              timers, stopped>>
liveVars == <<toneContext, synthContext, voices, played>>
previewVars == <<modalFile, modalOpen, loading, fetches, midiDataOf, audioOf, rendering, saving,
                 exported>>
saveVars == <<tags, saveSuccess, upload, completions>>
moreVars == <<liveVars, previewVars, saveVars>>
laterVars == <<wavVars, renderVars, exportVars, modalVars, playVars, moreVars>>
vars == <<captureVars, recordedNotes, encVars, vlqVars, laterVars>>

-----------------------------------------------------------------------------
(* Bounds of the model *)

MaxLate == 1        \* instants followed after the first timer period
MaxNotes == 2       \* note-ons followed per recording
MaxTake == 2        \* events of a take handed to the encoder
MaxPendingInit == 1 \* concurrent initializeMidi calls
MaxFrames == 2      \* sample frames of a buffer handed to createWaveFile
MaxExportTake == 2  \* events of a take or of a parsed file handed to an export
MaxChains == 2      \* playback chains (pending starts and pending timeouts) at a time

-----------------------------------------------------------------------------
(* Generic helpers *)

Max2(a, b) == IF a >= b THEN a ELSE b

\* Math.round: the nearest integer, halves towards +infinity; num/den, den > 0
Round(num, den) == (2 * num + den) \div (2 * den)

RECURSIVE SeqSum(_)
SeqSum(s) == IF s = <<>> THEN 0 ELSE Head(s) + SeqSum(Tail(s))

\* new Uint8Array([...]): every element is stored modulo 256
ToUint8(s) == [i \in 1..Len(s) |-> s[i] % 256]

-----------------------------------------------------------------------------
(* encodeVariableLength *)

\* The do-while loop on v: b = v & 0x7F; v >>= 7; if (v > 0) b |= 0x80; push(b).
\* For 0 <= v < 2^31 the 32-bit operators are v % 128 and v \div 128.
RECURSIVE VlqLoop(_)
VlqLoop(v) ==
  LET b == v % 128
      rest == v \div 128
  IN IF rest > 0 THEN <<b + 128>> \o VlqLoop(rest) ELSE <<b>>

encodeVariableLength(val) == VlqLoop(IF val < 0 THEN 0 ELSE val)

-----------------------------------------------------------------------------
(* convertNotesToMidiFile *)

PPQ == 960
TEMPO_BPM == 500

\* [...notes].sort((a, b) => a.timestamp - b.timestamp): a stable sort
RECURSIVE InsertByTimestamp(_, _)
InsertByTimestamp(sorted, n) ==
  IF sorted = <<>> THEN <<n>>
  ELSE IF Head(sorted).timestamp <= n.timestamp
       THEN <<Head(sorted)>> \o InsertByTimestamp(Tail(sorted), n)
       ELSE <<n>> \o sorted

RECURSIVE SortByTimestamp(_)
SortByTimestamp(notes) ==
  IF notes = <<>> THEN <<>>
  ELSE InsertByTimestamp(SortByTimestamp(SubSeq(notes, 1, Len(notes) - 1)),
                         notes[Len(notes)])

\* events.sort((a, b) => a.tick - b.tick): a stable sort
RECURSIVE InsertByTick(_, _)
InsertByTick(sorted, e) ==
  IF sorted = <<>> THEN <<e>>
  ELSE IF Head(sorted).tick <= e.tick
       THEN <<Head(sorted)>> \o InsertByTick(Tail(sorted), e)
       ELSE <<e>> \o sorted

RECURSIVE SortByTick(_)
SortByTick(events) ==
  IF events = <<>> THEN <<>>
  ELSE InsertByTick(SortByTick(SubSeq(events, 1, Len(events) - 1)),
                    events[Len(events)])

\* Math.round((ms / 1000) * (PPQ * TEMPO_BPM / 60)).  PPQ * TEMPO_BPM / 60 is
\* the integer 8000 and the exact product is an integer, so the double result
\* is within rounding error of it and Math.round returns the exact rounding.
msToTicksHalfTempo(ms) == Round(ms * PPQ * 250, 1000 * 60)
msToTicks(ms) == Round(ms * PPQ * TEMPO_BPM, 1000 * 60)

\* Mutant: the computed value is written without the fallback to 64
VelocityByteNoFallback(velocity) == (velocity * 127) \div 1000
\* Math.floor(note.velocity * 127) || 64, the velocity in thousandths
VelocityByte(velocity) ==
  LET v == (velocity * 127) \div 1000 IN IF v = 0 THEN 64 ELSE v

\* if (note.type === 'noteon' && note.duration > 0)
EncodedNoteAnyDuration(note) == note.type = "noteon" /\ note.duration >= 0
EncodedNote(note) == note.type = "noteon" /\ note.duration > 0

\* the forEach filling noteOnEvents, then noteOnEvents.sort
RECURSIVE CollectNoteOn(_)
CollectNoteOn(sorted) ==
  IF sorted = <<>> THEN <<>>
  ELSE (IF EncodedNote(Head(sorted))
        THEN <<[tick |-> msToTicks(Head(sorted).timestamp),
                note |-> Head(sorted).note,
                velocity |-> VelocityByte(Head(sorted).velocity),
                isNoteOn |-> TRUE]>>
        ELSE <<>>) \o CollectNoteOn(Tail(sorted))

\* the forEach filling noteOffEvents, then noteOffEvents.sort
RECURSIVE CollectNoteOff(_)
CollectNoteOff(sorted) ==
  IF sorted = <<>> THEN <<>>
  ELSE (IF EncodedNote(Head(sorted))
        THEN <<[tick |-> msToTicks(Head(sorted).timestamp + Head(sorted).duration),
                note |-> Head(sorted).note,
                velocity |-> 0,
                isNoteOn |-> FALSE]>>
        ELSE <<>>) \o CollectNoteOff(Tail(sorted))

noteOnEvents(notes) == SortByTick(CollectNoteOn(SortByTimestamp(notes)))
noteOffEvents(notes) == SortByTick(CollectNoteOff(SortByTimestamp(notes)))

\* Mutant: the pooled events are not sorted again
allEventsUnsorted(notes) == noteOnEvents(notes) \o noteOffEvents(notes)
\* [...noteOnEvents, ...noteOffEvents].sort((a, b) => a.tick - b.tick)
allEvents(notes) == SortByTick(noteOnEvents(notes) \o noteOffEvents(notes))

\* deltaTick of the i-th event of the loop: currentTick - previousTick
deltaTick(events, i) == events[i].tick - (IF i = 1 THEN 0 ELSE events[i - 1].tick)

\* the loop "Process events with delta time encoding"
RECURSIVE EventBytes(_, _)
EventBytes(events, i) ==
  IF i > Len(events) THEN <<>>
  ELSE encodeVariableLength(deltaTick(events, i))
       \o (IF events[i].isNoteOn
           THEN <<144, events[i].note, events[i].velocity>>
           ELSE <<128, events[i].note, 64>>)
       \o EventBytes(events, i + 1)

\* 'Recorded MIDI - ' as UTF-16 code units
TrackNamePrefix ==
  <<82, 101, 99, 111, 114, 100, 101, 100, 32, 77, 73, 68, 73, 32, 45, 32>>

trackName(name) == TrackNamePrefix \o name

\* delta 0, 0xFF 0x03, trackName.length, then the code units of the name
TrackNameEvent(name) == <<0, 255, 3, Len(trackName(name))>> \o trackName(name)

EndOfTrack == <<0, 255, 47, 0>>

noteTrackData(notes, name) ==
  TrackNameEvent(name) \o EventBytes(allEvents(notes), 1) \o EndOfTrack

header == <<77, 84, 104, 100, 0, 0, 0, 6, 0, 1, 0, 2,
            (PPQ \div 256) % 256, PPQ % 256>>

microsecondsPerBeat == Round(60000000, TEMPO_BPM)

tempoTrackData ==
  <<0, 255, 81, 3,
    (microsecondsPerBeat \div 65536) % 256,
    (microsecondsPerBeat \div 256) % 256,
    microsecondsPerBeat % 256,
    0, 255, 88, 4, 4, 2, 24, 8,
    0, 255, 47, 0>>

MTrk == <<77, 84, 114, 107>>

\* Mutant: the size is written least significant byte first
SizeBytesLittleEndian(size) ==
  <<size % 256, (size \div 256) % 256, (size \div 65536) % 256,
    (size \div 16777216) % 256>>
\* (size >> 24) & 0xFF, (size >> 16) & 0xFF, (size >> 8) & 0xFF, size & 0xFF
SizeBytes(size) ==
  <<(size \div 16777216) % 256, (size \div 65536) % 256,
    (size \div 256) % 256, size % 256>>

convertNotesToMidiFile(notes, name) ==
  ToUint8(header
          \o MTrk \o SizeBytes(Len(tempoTrackData)) \o tempoTrackData
          \o MTrk \o SizeBytes(Len(noteTrackData(notes, name)))
          \o noteTrackData(notes, name))

-----------------------------------------------------------------------------
(* Capture: the component's MIDI state and the recording handlers *)

MaxListeners == 2           \* listeners followed on one port
MaxSaves == 2               \* upload attempts followed
InputIds == {1}             \* the MIDI input ports of the machine
Pitches == {60, 64}         \* e.note.number of the messages followed
Velocities == {800}         \* e.note.attack of the messages followed
TIMER_MS == 1000            \* period of the recording interval

\* The instants (ms) at which the clock is read: the same millisecond, the
\* next one, and those from one timer period on
Instants == {0, 1} \cup {TIMER_MS + k : k \in 0..MaxLate}

MinOf(S) == CHOOSE x \in S : \A y \in S : x <= y

\* The state the component is in once mounted: the mount effect has created
\* the synth and called initializeMidi, which awaits WebMidi.enable().
CaptureInit ==
  /\ now = 0
  /\ connected \in SUBSET InputIds
  /\ pendingInit = 1
  /\ midiEnabled = FALSE
  /\ midiInputs = {}
  /\ selectedInput = 0
  /\ connectionError = "none"
  /\ isRecording = FALSE
  /\ recordingTime = 0
  /\ timerRef = FALSE
  /\ timerDue = 0
  /\ listeners = [i \in InputIds |-> <<>>]
  /\ dispatch = <<>>

\* 'New MIDI Recording', the initial fileName
DefaultFileName ==
  <<78, 101, 119, 32, 77, 73, 68, 73, 32, 82, 101, 99, 111, 114, 100, 105, 110, 103>>

EncIdle == fileName = DefaultFileName /\ midiFile = <<>> /\ encPc = "idle"
VlqIdle == value = 0 /\ vlqBytes = <<>> /\ vlqPc = "idle"
WavIdle ==
  /\ audioData = <<>> /\ sampleRate = 0 /\ numChannels = 0
  /\ wavFile = <<>> /\ modalWavFile = <<>>
NoContext == [channels |-> 0, length |-> 0]
RenderIdle ==
  /\ offlineContext = NoContext /\ scheduled = <<>> /\ synthRejects = {}
  /\ downloaded = <<>>
ExportIdle ==
  /\ isSaving = FALSE /\ saveError = "none" /\ exportPc = "ready"
  /\ fallbacks = 0
ModalIdle ==
  /\ midiData = [state |-> "closed", notes |-> <<>>]
  /\ exportStatus = [loading |-> FALSE, error |-> "none"]
  /\ audioGenerated = FALSE
  /\ modalPc = "ready"
PlayIdle ==
  /\ isPlaying = FALSE /\ currentNoteIndexRef = 0 /\ playbackTimerRef = 0
  /\ pendingStarts = <<>> /\ timers = {} /\ stopped = FALSE
LiveIdle ==
  /\ toneContext = "realtime" /\ synthContext = "realtime"
  /\ voices = {} /\ played = <<>>
NoFiles == [bytes |-> 0, name |-> 0]
PreviewIdle ==
  /\ modalFile = 0 /\ modalOpen = FALSE /\ loading = TRUE /\ fetches = {} /\ midiDataOf = 0
  /\ audioOf = 0 /\ rendering = NoFiles /\ saving = NoFiles /\ exported = {}
NoUpload == [name |-> <<>>, tags |-> <<>>, bytes |-> <<>>]
SaveIdle ==
  /\ tags = <<>> /\ saveSuccess = FALSE /\ upload = NoUpload
  /\ completions = <<>>
MoreIdle == LiveIdle /\ PreviewIdle /\ SaveIdle
LaterIdle ==
  WavIdle /\ RenderIdle /\ ExportIdle /\ ModalIdle /\ PlayIdle /\ MoreIdle

\* Nothing else runs while the listeners of one MIDI message are being called.
Idle == dispatch = <<>>

\* The Refresh button (disabled while recording): initializeMidi up to its
\* first await.
initializeMidi ==
  /\ Idle
  /\ ~isRecording
  /\ pendingInit < MaxPendingInit
  /\ connectionError' = "none"
  /\ pendingInit' = pendingInit + 1
  /\ UNCHANGED <<now, connected, midiEnabled, selectedInput, isRecording,
                 recordingTime, timerRef, listeners, dispatch, midiInputs, timerDue, recordedNotes, encVars, vlqVars, laterVars>>

\* initializeMidi after WebMidi.enable() resolved (Tone.start() then resolves)
initializeMidiEnabled ==
  /\ Idle
  /\ pendingInit > 0
  /\ pendingInit' = pendingInit - 1
  /\ midiEnabled' = TRUE
  /\ midiInputs' = connected
  /\ IF connected # {}
     THEN selectedInput' = MinOf(connected) /\ UNCHANGED connectionError
     ELSE connectionError' = "noInputs" /\ UNCHANGED selectedInput
  /\ UNCHANGED <<now, connected, isRecording, recordingTime, timerRef,
                 listeners, dispatch, timerDue, recordedNotes, encVars, vlqVars, laterVars>>

\* initializeMidi when WebMidi.enable() rejects: the catch block
initializeMidiFailed ==
  /\ Idle
  /\ pendingInit > 0
  /\ pendingInit' = pendingInit - 1
  /\ connectionError' = "enableFailed"
  /\ midiEnabled' = FALSE
  /\ UNCHANGED <<now, connected, selectedInput, isRecording, recordingTime,
                 timerRef, listeners, dispatch, midiInputs, timerDue,
                 recordedNotes, encVars, vlqVars, laterVars>>

\* The input Select (disabled unless midiEnabled and not recording); its
\* items are the ports of midiInputs.
handleInputChange(inputId) ==
  /\ Idle
  /\ midiEnabled /\ ~isRecording
  /\ inputId \in midiInputs
  /\ selectedInput' = inputId
  /\ UNCHANGED <<now, connected, pendingInit, midiEnabled, connectionError,
                 isRecording, recordingTime, timerRef, listeners, dispatch,
                 midiInputs, timerDue, recordedNotes,
                 encVars, vlqVars, laterVars>>

\* Mutant: the take and the time are reset before the device is looked up
startRecordingResetsFirst ==
  /\ Idle
  /\ ~isRecording
  /\ selectedInput \in DOMAIN listeners =>
       Len(listeners[selectedInput]) < MaxListeners
  /\ recordedNotes' = <<>>
  /\ recordingTime' = 0
  /\ IF selectedInput = 0 \/ ~midiEnabled
     THEN /\ connectionError' = "noInputSelected"
          /\ UNCHANGED <<isRecording, timerRef, timerDue, listeners>>
     ELSE IF selectedInput \notin connected
     THEN /\ connectionError' = "inputNotFound"
          /\ UNCHANGED <<isRecording, timerRef, timerDue, listeners>>
     ELSE /\ listeners' = [listeners EXCEPT
                             ![selectedInput] = Append(@, [startTime |-> now])]
          /\ timerRef' = TRUE
          /\ timerDue' = now + TIMER_MS
          /\ isRecording' = TRUE
          /\ connectionError' = "none"
  /\ UNCHANGED <<now, connected, pendingInit, midiEnabled, selectedInput,
                 dispatch, midiInputs, encVars, vlqVars, laterVars>>

\* The Start Recording button, rendered while not recording. (The listeners
\* followed on a port are capped at MaxListeners.)
startRecording ==
  /\ Idle
  /\ ~isRecording
  /\ selectedInput \in DOMAIN listeners =>
       Len(listeners[selectedInput]) < MaxListeners
  /\ IF selectedInput = 0 \/ ~midiEnabled
     THEN /\ connectionError' = "noInputSelected"
          /\ UNCHANGED <<isRecording, recordingTime, timerRef, timerDue,
                         listeners, recordedNotes>>
     ELSE IF selectedInput \notin connected
     THEN /\ connectionError' = "inputNotFound"
          /\ UNCHANGED <<isRecording, recordingTime, timerRef, timerDue,
                         listeners, recordedNotes>>
     ELSE /\ recordedNotes' = <<>>
          /\ recordingTime' = 0
          /\ listeners' = [listeners EXCEPT
                             ![selectedInput] = Append(@, [startTime |-> now])]
          /\ timerRef' = TRUE
          /\ timerDue' = now + TIMER_MS
          /\ isRecording' = TRUE
          /\ connectionError' = "none"
  /\ UNCHANGED <<now, connected, pendingInit, midiEnabled, selectedInput,
                 dispatch, midiInputs, encVars, vlqVars, laterVars>>

\* The Stop Recording button, rendered while recording.
stopRecording ==
  /\ Idle
  /\ isRecording
  /\ listeners' = IF selectedInput \in connected
                  THEN [listeners EXCEPT ![selectedInput] = <<>>]
                  ELSE listeners
  /\ timerRef' = FALSE
  /\ timerDue' = 0
  /\ isRecording' = FALSE
  /\ UNCHANGED <<now, connected, pendingInit, midiEnabled, selectedInput,
                 connectionError, recordingTime, dispatch, midiInputs,
                 recordedNotes, encVars, vlqVars, laterVars>>

\* setInterval(() => setRecordingTime(prev => prev + 1), 1000)
recordingTimer ==
  /\ Idle
  /\ timerRef
  /\ now >= timerDue
  /\ recordingTime' = recordingTime + 1
  /\ timerDue' = timerDue + TIMER_MS
  /\ UNCHANGED <<now, connected, pendingInit, midiEnabled, selectedInput,
                 connectionError, isRecording, timerRef, listeners, dispatch,
                 midiInputs, recordedNotes, encVars, vlqVars, laterVars>>

\* Mutant: the scan runs forward and takes the oldest open event
MatchIndexOldest(notes, noteNumber, i) ==
  IF \E k \in 1..i : notes[k].note = noteNumber /\ notes[k].duration = 0
  THEN MinOf({k \in 1..i : notes[k].note = noteNumber /\ notes[k].duration = 0})
  ELSE 0

\* The noteoff updater's backward scan: the index it patches, 0 when none
RECURSIVE MatchIndex(_, _, _)
MatchIndex(notes, noteNumber, i) ==
  IF i = 0 THEN 0
  ELSE IF /\ notes[i].note = noteNumber
          /\ notes[i].type = "noteon"
          /\ notes[i].duration = 0
       THEN i
       ELSE MatchIndex(notes, noteNumber, i - 1)

\* Mutant: a note-off that matches nothing closes the last event
noteOffUpdaterCloseLast(prev, noteNumber, currentTime) ==
  LET i == MatchIndex(prev, noteNumber, Len(prev))
      k == IF i = 0 THEN Len(prev) ELSE i
  IN IF k = 0 THEN prev
     ELSE [prev EXCEPT ![k].duration = currentTime - prev[k].timestamp]

\* setRecordedNotes(prev => ...) of the noteoff listener
noteOffUpdater(prev, noteNumber, currentTime) ==
  LET i == MatchIndex(prev, noteNumber, Len(prev))
  IN IF i = 0 THEN prev
     ELSE [prev EXCEPT ![i].duration = currentTime - prev[i].timestamp]

\* A connected input delivers a note message: WebMidi calls the listeners
\* registered for it, in registration order.
midiMessage(inputId, kind, noteNumber, attack) ==
  /\ Idle
  /\ inputId \in connected
  /\ listeners[inputId] # <<>>
  /\ kind = "noteon" => Len(recordedNotes) + Len(listeners[inputId]) <= MaxNotes
  /\ dispatch' = [k \in 1..Len(listeners[inputId]) |->
                    [kind |-> kind, note |-> noteNumber, attack |-> attack,
                     startTime |-> listeners[inputId][k].startTime]]
  /\ UNCHANGED <<now, connected, pendingInit, midiEnabled, selectedInput,
                 connectionError, isRecording, recordingTime, timerRef,
                 listeners, midiInputs, timerDue, recordedNotes, encVars, vlqVars, laterVars>>

\* input.addListener('noteon', e => ...)
noteOnListener ==
  /\ dispatch # <<>>
  /\ Head(dispatch).kind = "noteon"
  /\ LET e == Head(dispatch)
         noteData == [note |-> e.note, velocity |-> e.attack,
                      timestamp |-> now - e.startTime, duration |-> 0,
                      type |-> "noteon"]
     IN /\ recordedNotes' = Append(recordedNotes, noteData)
        /\ voices' = voices \cup {e.note}
  /\ dispatch' = Tail(dispatch)
  /\ UNCHANGED <<now, connected, pendingInit, midiEnabled, selectedInput,
                 connectionError, isRecording, recordingTime, timerRef,
                 listeners, midiInputs, timerDue, encVars, vlqVars, wavVars,
                 renderVars, exportVars, modalVars, playVars, toneContext,
                 synthContext, played,
                 previewVars, saveVars>>

\* input.addListener('noteoff', e => ...)
noteOffListener ==
  /\ dispatch # <<>>
  /\ Head(dispatch).kind = "noteoff"
  /\ LET e == Head(dispatch)
         currentTime == now - e.startTime
     IN /\ recordedNotes' = noteOffUpdater(recordedNotes, e.note, currentTime)
        /\ voices' = voices \ {e.note}
  /\ dispatch' = Tail(dispatch)
  /\ UNCHANGED <<now, connected, pendingInit, midiEnabled, selectedInput,
                 connectionError, isRecording, recordingTime, timerRef,
                 listeners, midiInputs, timerDue, encVars, vlqVars, wavVars,
                 renderVars, exportVars, modalVars, playVars, toneContext,
                 synthContext, played,
                 previewVars, saveVars>>

\* The clock advances.
advanceClock(t) ==
  /\ Idle
  /\ t > now
  /\ now' = t
  /\ UNCHANGED <<connected, pendingInit, midiEnabled, selectedInput,
                 connectionError, isRecording, recordingTime, timerRef,
                 listeners, dispatch, midiInputs, timerDue, recordedNotes, encVars, vlqVars, laterVars>>

Init == CaptureInit /\ recordedNotes = <<>> /\ EncIdle /\ VlqIdle /\ LaterIdle

Next ==
  \/ initializeMidi
  \/ initializeMidiEnabled
  \/ initializeMidiFailed
  \/ \E i \in InputIds : handleInputChange(i)
  \/ startRecording
  \/ stopRecording
  \/ recordingTimer
  \/ \E i \in InputIds, k \in {"noteon", "noteoff"}, p \in Pitches,
        a \in Velocities : midiMessage(i, k, p, a)
  \/ noteOnListener
  \/ noteOffListener
  \/ \E t \in Instants : advanceClock(t)

Spec == Init /\ [][Next]_vars

-----------------------------------------------------------------------------
(* convertNotesToMidiFile on bounded inputs *)

EncPitches == {60, 64}
EncVelocities == {0, 800}
EncTimes == {0, 16, 250}
EncDurations == {0, 10, 500}

NoteEvents ==
  [note : EncPitches, velocity : EncVelocities, timestamp : EncTimes,
   duration : EncDurations, type : {"noteon"}]

Takes == UNION {[1..n -> NoteEvents] : n \in 0..MaxTake}

NameOfLength(n) == [i \in 1..n |-> 97]

\* the default name, names that make the track name 127 and 128 code units
\* long, and a name with a code unit above 255
FileNames == {DefaultFileName, NameOfLength(111), NameOfLength(112), <<9835>>}

\* The component at rest, for the specifications of the pure functions
CaptureQuiet ==
  /\ now = 0
  /\ connected = {}
  /\ pendingInit = 0
  /\ midiEnabled = FALSE
  /\ midiInputs = {}
  /\ selectedInput = 0
  /\ connectionError = "none"
  /\ isRecording = FALSE
  /\ recordingTime = 0
  /\ timerRef = FALSE
  /\ timerDue = 0
  /\ listeners = [i \in InputIds |-> <<>>]
  /\ dispatch = <<>>

\* Every recorded velocity of [0.0, 1.0] in steps of a thousandth, each in a
\* take of one event
VelocityTakes ==
  {<<[note |-> 60, velocity |-> v, timestamp |-> 0, duration |-> 10,
      type |-> "noteon"]>> : v \in 0..1000}

\* Takes of more than one event, and the takes of VelocityTakes, are encoded
\* under the default name.
InitEnc ==
  /\ CaptureQuiet
  /\ VlqIdle
  /\ LaterIdle
  /\ recordedNotes \in Takes \cup VelocityTakes
  /\ fileName \in FileNames
  /\ (Len(recordedNotes) > 1 \/ recordedNotes \notin Takes)
       => fileName = DefaultFileName
  /\ midiFile = <<>>
  /\ encPc = "input"

\* const midiData = convertNotesToMidiFile(recordedNotes)
convert ==
  /\ encPc = "input"
  /\ midiFile' = convertNotesToMidiFile(recordedNotes, fileName)
  /\ encPc' = "done"
  /\ UNCHANGED <<captureVars, recordedNotes, fileName, vlqVars, laterVars>>

NextEnc == convert

SpecEnc == InitEnc /\ [][NextEnc]_vars

-----------------------------------------------------------------------------
(* convertNotesToMidiFile called twice on the same take *)

\* A take of at most one event, not yet encoded
InitIdem ==
  /\ InitEnc
  /\ recordedNotes \in Takes
  /\ Len(recordedNotes) <= 1

\* onChange={(e) => setFileName(e.target.value)} of the File Name field,
\* after a save whose upload failed (the take is kept)
setFileName(name) ==
  /\ encPc \in {"done", "again"}
  /\ name # fileName
  /\ fileName' = name
  /\ UNCHANGED <<captureVars, recordedNotes, midiFile, encPc, vlqVars, laterVars>>

\* const midiData = convertNotesToMidiFile(recordedNotes) of the next save
convertAgain ==
  /\ encPc \in {"done", "again"}
  /\ midiFile' = convertNotesToMidiFile(recordedNotes, fileName)
  /\ encPc' = "again"
  /\ UNCHANGED <<captureVars, recordedNotes, fileName, vlqVars, laterVars>>

NextIdem ==
  \/ convert
  \/ \E name \in FileNames : setFileName(name)
  \/ convertAgain

SpecIdem == InitIdem /\ [][NextIdem]_vars

-----------------------------------------------------------------------------
(* encodeVariableLength on bounded inputs *)

VlqInputs == (0 - 2)..400 \cup 16380..16400 \cup {2097151, 2097152}

InitVLQ ==
  /\ CaptureQuiet
  /\ EncIdle
  /\ LaterIdle
  /\ recordedNotes = <<>>
  /\ value \in VlqInputs
  /\ vlqBytes = <<>>
  /\ vlqPc = "input"

\* const deltaBytes = encodeVariableLength(deltaTick)
encode ==
  /\ vlqPc = "input"
  /\ vlqBytes' = encodeVariableLength(value)
  /\ vlqPc' = "done"
  /\ UNCHANGED <<captureVars, recordedNotes, encVars, value, laterVars>>

NextVLQ == encode

SpecVLQ == InitVLQ /\ [][NextVLQ]_vars

-----------------------------------------------------------------------------
(* createWaveFile and floatTo16BitPCM, in the recorder and in the preview  *)
(* modal (src/client/src/components/FileList/FilePreviewModal.tsx)         *)

\* dataView.setUint16(offset, x, true) and dataView.setUint32(offset, x, true)
Uint16LE(x) == <<(x % 65536) % 256, (x % 65536) \div 256>>
Uint32LE(x) ==
  <<x % 256, (x \div 256) % 256, (x \div 65536) % 256, (x \div 16777216) % 256>>

\* dataView.setInt16(offset, num / den, true): the number is truncated toward
\* zero and taken modulo 2^16
Int16LE(num, den) ==
  LET t == IF num >= 0 THEN num \div den ELSE 0 - ((0 - num) \div den)
  IN Uint16LE(t % 65536)

\* Mutant: the sample is scaled without being clamped
sampleUnclamped(x) == x
\* const s = Math.max(-1, Math.min(1, input[i])), in thousandths
sampleClamped(x) ==
  LET m == IF x < 1000 THEN x ELSE 1000 IN IF m > 0 - 1000 THEN m ELSE 0 - 1000

\* s < 0 ? s * 0x8000 : s * 0x7FFF, written by setInt16
floatTo16BitPCMSample(x) ==
  LET c == sampleClamped(x)
  IN IF c < 0 THEN Int16LE(c * 32768, 1000) ELSE Int16LE(c * 32767, 1000)

\* the recorder's floatTo16BitPCM: the bytes written from offset 44 on
floatTo16BitPCM(input) ==
  [i \in 1..(2 * Len(input)) |-> floatTo16BitPCMSample(input[(i + 1) \div 2])[2 - (i % 2)]]

\* writeString(view, offset, string) for the four tags of the header
TagRIFF == <<82, 73, 70, 70>>
TagWAVE == <<87, 65, 86, 69>>
TagFmt == <<102, 109, 116, 32>>
TagData == <<100, 97, 116, 97>>

\* Mutant: the data size counts samples, not bytes
dataSizeInSamples(data) == Len(data)
\* const dataSize = audioData.length * bytesPerSample
dataSize(data) == Len(data) * (16 \div 8)

\* the recorder's createWaveFile
createWaveFile(data, rate, channels) ==
  LET bitsPerSample == 16
      bytesPerSample == bitsPerSample \div 8
      blockAlign == channels * bytesPerSample
      byteRate == rate * blockAlign
  IN TagRIFF \o Uint32LE(36 + dataSize(data)) \o TagWAVE
     \o TagFmt \o Uint32LE(16) \o Uint16LE(1) \o Uint16LE(channels)
     \o Uint32LE(rate) \o Uint32LE(byteRate) \o Uint16LE(blockAlign)
     \o Uint16LE(bitsPerSample)
     \o TagData \o Uint32LE(dataSize(data))
     \o floatTo16BitPCM(data)

\* the preview modal's floatTo16BitPCM
modalFloatTo16BitPCM(input) ==
  [i \in 1..(2 * Len(input)) |->
     LET x == input[(i + 1) \div 2]
         s == IF (IF x < 1000 THEN x ELSE 1000) > 0 - 1000
              THEN (IF x < 1000 THEN x ELSE 1000) ELSE 0 - 1000
         b == IF s < 0 THEN Int16LE(s * 32768, 1000) ELSE Int16LE(s * 32767, 1000)
     IN b[2 - (i % 2)]]

\* the preview modal's createWaveFile
modalCreateWaveFile(data, rate, channels) ==
  LET bitsPerSample == 16
      bytesPerSample == bitsPerSample \div 8
      blockAlign == channels * bytesPerSample
      byteRate == rate * blockAlign
      size == Len(data) * bytesPerSample
  IN TagRIFF \o Uint32LE(36 + size) \o TagWAVE
     \o TagFmt \o Uint32LE(16) \o Uint16LE(1) \o Uint16LE(channels)
     \o Uint32LE(rate) \o Uint32LE(byteRate) \o Uint16LE(blockAlign)
     \o Uint16LE(bitsPerSample)
     \o TagData \o Uint32LE(size)
     \o modalFloatTo16BitPCM(data)

-----------------------------------------------------------------------------
(* createWaveFile on bounded inputs *)

WavSamples == {0 - 1000, 0, 500}
WavSampleRates == {44100, 48000}
WavChannels == {1, 2}
\* single samples, inside and outside [-1, 1]
PcmProbes == (0 - 1500)..1500

\* A buffer of up to MaxFrames frames of one or two interleaved channels, or
\* a mono buffer of one sample of PcmProbes at 44100 Hz
InitWav ==
  /\ CaptureQuiet
  /\ recordedNotes = <<>>
  /\ EncIdle
  /\ VlqIdle
  /\ numChannels \in WavChannels
  /\ sampleRate \in WavSampleRates
  /\ \/ \E n \in 0..MaxFrames : audioData \in [1..(n * numChannels) -> WavSamples]
     \/ /\ numChannels = 1
        /\ sampleRate = 44100
        /\ \E x \in PcmProbes : audioData = <<x>>
  /\ wavFile = <<>>
  /\ modalWavFile = <<>>
  /\ RenderIdle /\ ExportIdle /\ ModalIdle /\ PlayIdle /\ MoreIdle

\* createWaveFile(interleaved, sampleRate, 2) / createWaveFile(monoData,
\* simpleBuffer.sampleRate, 1) in the recorder
createWave ==
  /\ numChannels # 0
  /\ wavFile = <<>>
  /\ wavFile' = createWaveFile(audioData, sampleRate, numChannels)
  /\ UNCHANGED <<captureVars, recordedNotes, encVars, vlqVars, audioData,
                 sampleRate, numChannels, modalWavFile, renderVars,
                 exportVars, modalVars, playVars, moreVars>>

\* createWaveFile(interleaved, renderedBuffer.sampleRate, 2) in the modal,
\* here on the same buffer
modalCreateWave ==
  /\ numChannels # 0
  /\ modalWavFile = <<>>
  /\ modalWavFile' = modalCreateWaveFile(audioData, sampleRate, numChannels)
  /\ UNCHANGED <<captureVars, recordedNotes, encVars, vlqVars, audioData,
                 sampleRate, numChannels, wavFile, renderVars, exportVars,
                 modalVars, playVars, moreVars>>

NextWav == createWave \/ modalCreateWave

SpecWav == InitWav /\ [][NextWav]_vars

-----------------------------------------------------------------------------
(* Audio export: downloadAsMP3 of the recorder and exportMidiAsAudio of the *)
(* preview modal.  Times handed to Tone.js are kept in ms (the code passes *)
(* seconds: ms / 1000).                                                     *)

\* midiToNoteName: the index into noteNames and the octave
midiToNoteName(midiNote) ==
  [name |-> midiNote % 12, octave |-> (midiNote \div 12) - 1]

\* note.velocity || 0.7
VelocityOrDefault(velocity) == IF velocity = 0 THEN 700 ELSE velocity

\* sortedNotes.forEach(note => ... triggerAttackRelease ...) of downloadAsMP3
\* and of fallbackRendering: the calls accepted, and whether a call threw
\* (which ends the forEach)
RECURSIVE ScheduleNotes(_, _)
ScheduleNotes(sorted, rejects) ==
  IF sorted = <<>> THEN [calls |-> <<>>, threw |-> FALSE]
  ELSE LET note == Head(sorted)
       IN IF note.type = "noteon" /\ note.duration > 0
          THEN IF note.note \in rejects
               THEN [calls |-> <<>>, threw |-> TRUE]
               ELSE LET rest == ScheduleNotes(Tail(sorted), rejects)
                    IN [calls |-> <<[noteName |-> midiToNoteName(note.note),
                                     duration |-> note.duration,
                                     startTime |-> note.timestamp,
                                     velocity |-> VelocityOrDefault(note.velocity)]>>
                                  \o rest.calls,
                        threw |-> rest.threw]
          ELSE ScheduleNotes(Tail(sorted), rejects)

\* Mutant: the busy flag is not reset when the export fails
isSavingLeftSet == TRUE
\* setIsSaving(false) of the catch block
isSavingAfterFailure == FALSE

\* recordedNotes as sortedNotes of the export in progress holds them: the
\* take does not change while an export runs in ExportNext
downloadAsMP3 ==
  /\ exportPc \in {"ready", "finished"}
  /\ ~isSaving
  /\ fallbacks' = 0
  /\ downloaded' = <<>>
  /\ IF Len(recordedNotes) = 0
     THEN /\ saveError' = "noData"
          /\ exportPc' = "finished"
          /\ offlineContext' = NoContext
          /\ scheduled' = <<>>
          /\ UNCHANGED isSaving
     ELSE LET recordingLengthSeconds == recordingTime + 3
              r == ScheduleNotes(SortByTimestamp(recordedNotes), synthRejects)
          IN /\ offlineContext' = [channels |-> 2,
                                   length |-> recordingLengthSeconds * 1000]
             /\ scheduled' = r.calls
             /\ IF r.threw
                THEN /\ saveError' = "failed"
                     /\ isSaving' = isSavingAfterFailure
                     /\ exportPc' = "finished"
                ELSE /\ saveError' = "rendering"
                     /\ isSaving' = TRUE
                     /\ exportPc' = "primary"
  /\ UNCHANGED <<captureVars, recordedNotes, encVars, vlqVars, wavVars,
                 synthRejects, modalVars, playVars, moreVars>>

\* await offlineContext.render() resolves: the stereo WAV is downloaded
primaryRendered ==
  /\ exportPc = "primary"
  /\ saveError' = "none"
  /\ downloaded' = Append(downloaded, 2)
  /\ isSaving' = FALSE
  /\ exportPc' = "finished"
  /\ UNCHANGED <<captureVars, recordedNotes, encVars, vlqVars, wavVars,
                 offlineContext, scheduled, synthRejects, fallbacks, modalVars, playVars, moreVars>>

\* await offlineContext.render() rejects: catch (renderError) runs
\* fallbackRendering up to its await simpleContext.render()
primaryRenderFailed ==
  /\ exportPc = "primary"
  /\ LET r == ScheduleNotes(SortByTimestamp(recordedNotes), synthRejects)
     IN /\ offlineContext' = [channels |-> 1, length |-> offlineContext.length]
        /\ scheduled' = r.calls
        /\ fallbacks' = fallbacks + 1
        /\ IF r.threw
           THEN /\ saveError' = "failed"
                /\ isSaving' = isSavingAfterFailure
                /\ exportPc' = "finished"
           ELSE /\ saveError' = "tryingSimpler"
                /\ exportPc' = "fallback"
                /\ UNCHANGED isSaving
  /\ UNCHANGED <<captureVars, recordedNotes, encVars, vlqVars, wavVars,
                 synthRejects, downloaded, modalVars, playVars, moreVars>>

\* await simpleContext.render() resolves: the mono WAV is downloaded
fallbackRendered ==
  /\ exportPc = "fallback"
  /\ downloaded' = Append(downloaded, 1)
  /\ saveError' = "none"
  /\ isSaving' = FALSE
  /\ exportPc' = "finished"
  /\ UNCHANGED <<captureVars, recordedNotes, encVars, vlqVars, wavVars,
                 offlineContext, scheduled, synthRejects, fallbacks, modalVars, playVars, moreVars>>

\* await simpleContext.render() rejects: the outer catch (error) runs
fallbackFailed ==
  /\ exportPc = "fallback"
  /\ saveError' = "failed"
  /\ isSaving' = isSavingAfterFailure
  /\ exportPc' = "finished"
  /\ UNCHANGED <<captureVars, recordedNotes, encVars, vlqVars, wavVars,
                 renderVars, fallbacks, modalVars, playVars, moreVars>>

\* note.time < 300 (seconds), in ms
ModalTimeLimit == 300000

\* let maxEndTime = 0; ... if (endTime > maxEndTime) maxEndTime = endTime
RECURSIVE maxEndTime(_)
maxEndTime(notes) ==
  IF notes = <<>> THEN 0
  ELSE Max2(Head(notes).time + Head(notes).duration, maxEndTime(Tail(notes)))

\* midi.tracks.forEach(track => track.notes.forEach(note => ...)) of
\* exportMidiAsAudio: the calls accepted (notesScheduled is their number)
RECURSIVE ScheduleModalNotes(_, _)
ScheduleModalNotes(notes, rejects) ==
  IF notes = <<>> THEN <<>>
  ELSE LET note == Head(notes)
       IN (IF /\ note.time >= 0 /\ note.time < ModalTimeLimit /\ note.duration > 0
              /\ note.name \notin rejects
           THEN <<[noteName |-> note.name, duration |-> note.duration,
                   startTime |-> note.time, velocity |-> note.velocity]>>
           ELSE <<>>) \o ScheduleModalNotes(Tail(notes), rejects)

\* exportMidiAsAudio up to its await offlineContext.render()
exportMidiAsAudio ==
  /\ midiData.state # "closed"
  /\ modalOpen /\ ~loading /\ modalFile # 0
  /\ modalPc \in {"ready", "finished"}
  /\ ~exportStatus.loading
  /\ downloaded' = <<>>
  /\ IF midiData.state = "none"
     THEN /\ exportStatus' = [loading |-> FALSE, error |-> "noValidFile"]
          /\ modalPc' = "finished"
          /\ offlineContext' = NoContext /\ scheduled' = <<>>
          /\ UNCHANGED <<toneContext, rendering>>
     ELSE IF midiData.state = "invalid"
     THEN /\ exportStatus' = [loading |-> FALSE, error |-> "exportFailed"]
          /\ modalPc' = "finished"
          /\ offlineContext' = NoContext /\ scheduled' = <<>>
          /\ UNCHANGED <<toneContext, rendering>>
     ELSE IF Len(midiData.notes) = 0
     THEN /\ exportStatus' = [loading |-> FALSE, error |-> "noNotes"]
          /\ modalPc' = "finished"
          /\ offlineContext' = NoContext /\ scheduled' = <<>>
          /\ UNCHANGED <<toneContext, rendering>>
     ELSE LET audioDuration == maxEndTime(midiData.notes) + 3000
              calls == ScheduleModalNotes(midiData.notes, synthRejects)
          IN /\ offlineContext' = [channels |-> 2, length |-> audioDuration]
             /\ toneContext' = "offline"
             /\ rendering' = IF Len(calls) = 0 THEN rendering
                             ELSE [bytes |-> midiDataOf, name |-> modalFile]
             /\ scheduled' = calls
             /\ IF Len(calls) = 0
                THEN /\ exportStatus' = [loading |-> FALSE,
                                         error |-> "couldNotProcess"]
                     /\ modalPc' = "finished"
                ELSE /\ exportStatus' = [loading |-> TRUE, error |-> "rendering"]
                     /\ modalPc' = "rendering"
  /\ UNCHANGED <<captureVars, recordedNotes, encVars, vlqVars, wavVars,
                 synthRejects, exportVars, midiData, audioGenerated,
                 playVars, synthContext, voices, played,
                 modalFile, modalOpen, loading, fetches, midiDataOf,
                 audioOf, saving, exported, saveVars>>

\* await offlineContext.render() resolves in the modal
modalRendered ==
  /\ modalPc = "rendering"
  /\ audioGenerated' = TRUE
  /\ audioOf' = rendering.bytes
  /\ exported' = exported \cup {[audio |-> rendering.bytes,
                                   name |-> rendering.name]}
  /\ rendering' = NoFiles
  /\ downloaded' = Append(downloaded, 2)
  /\ exportStatus' = [loading |-> FALSE, error |-> "none"]
  /\ modalPc' = "finished"
  /\ UNCHANGED <<captureVars, recordedNotes, encVars, vlqVars, wavVars,
                 offlineContext, scheduled, synthRejects, exportVars, midiData,
                 playVars, liveVars, modalFile, modalOpen, loading, fetches,
                 midiDataOf, saving, saveVars>>

\* await offlineContext.render() rejects in the modal
modalRenderFailed ==
  /\ modalPc = "rendering"
  /\ exportStatus' = [loading |-> FALSE, error |-> "renderFailed"]
  /\ modalPc' = "finished"
  /\ rendering' = NoFiles
  /\ UNCHANGED <<captureVars, recordedNotes, encVars, vlqVars, wavVars,
                 renderVars, exportVars, midiData, audioGenerated, playVars,
                 liveVars, modalFile, modalOpen, loading, fetches, midiDataOf,
                 audioOf, saving, exported, saveVars>>

-----------------------------------------------------------------------------
(* The exports on bounded inputs *)

ExportPitches == {60, 64}
ExportVelocities == {0, 800}
ExportTimes == {0, 250}
ExportDurations == {0, 500}
ExportRecordingTimes == {0, 1}

ExportNotes ==
  [note : ExportPitches, velocity : ExportVelocities, timestamp : ExportTimes,
   duration : ExportDurations, type : {"noteon"}]

\* Takes as the capture leaves them: events in the order of their note-ons
ExportTakes ==
  {t \in UNION {[1..n -> ExportNotes] : n \in 0..MaxExportTake} :
     \A i, j \in 1..Len(t) : i < j => t[i].timestamp <= t[j].timestamp}

\* Notes as @tonejs/midi hands them over (name is kept as the pitch number)
ModalNotes ==
  [name : ExportPitches, velocity : {800}, time : {0, 250, ModalTimeLimit},
   duration : ExportDurations]

ModalFiles ==
  {[state |-> "none", notes |-> <<>>], [state |-> "invalid", notes |-> <<>>]}
  \cup {[state |-> "parsed", notes |-> ns] :
          ns \in UNION {[1..n -> ModalNotes] : n \in 0..MaxExportTake}}

\* The recorder after a recording was stopped (the last note-off came before
\* the stop, and the timer has ticked recordingTime times, late or not)
CaptureStopped ==
  /\ now = 2 * TIMER_MS - 1
  /\ connected = InputIds
  /\ pendingInit = 0
  /\ midiEnabled = TRUE
  /\ midiInputs = InputIds
  /\ selectedInput = 1
  /\ connectionError = "none"
  /\ isRecording = FALSE
  /\ timerRef = FALSE
  /\ timerDue = 0
  /\ listeners = [i \in InputIds |-> <<>>]
  /\ dispatch = <<>>

\* Either a take in the recorder (the modal is not mounted), or a file in
\* the modal (the recorder holds no take)
InitExport ==
  /\ CaptureStopped
  /\ EncIdle /\ VlqIdle /\ WavIdle /\ ExportIdle /\ PlayIdle
  /\ LiveIdle /\ SaveIdle
  /\ fetches = {} /\ audioOf = 0 /\ rendering = NoFiles /\ saving = NoFiles
  /\ exported = {}
  /\ offlineContext = NoContext /\ scheduled = <<>> /\ downloaded = <<>>
  /\ synthRejects \in SUBSET ExportPitches
  /\ exportStatus = [loading |-> FALSE, error |-> "none"]
  /\ audioGenerated = FALSE
  /\ modalPc = "ready"
  /\ \/ /\ recordedNotes \in ExportTakes
        /\ recordingTime \in ExportRecordingTimes
        /\ midiData = [state |-> "closed", notes |-> <<>>]
        /\ modalFile = 0 /\ modalOpen = FALSE /\ loading = TRUE
        /\ midiDataOf = 0
     \/ /\ recordedNotes = <<>>
        /\ recordingTime = 0
        /\ midiData \in ModalFiles
        /\ modalFile = 1 /\ modalOpen = TRUE /\ loading = FALSE
        /\ midiDataOf = IF midiData.state = "none" THEN 0 ELSE 1

\* The Instrument Select (disabled while recording) and the effect on
\* [selectedInstrument]: the synth is disposed of and createSynth builds a
\* new one with .toDestination(), on the context Tone holds at that moment.
handleInstrumentChange ==
  /\ ~isRecording
  /\ synthContext' = toneContext
  /\ voices' = {}
  /\ UNCHANGED <<captureVars, recordedNotes, encVars, vlqVars, wavVars,
                 renderVars, exportVars, modalVars, playVars, toneContext,
                 played,
                 previewVars, saveVars>>

NextExport ==
  \/ handleInstrumentChange
  \/ downloadAsMP3
  \/ primaryRendered
  \/ primaryRenderFailed
  \/ fallbackRendered
  \/ fallbackFailed
  \/ exportMidiAsAudio
  \/ modalRendered
  \/ modalRenderFailed

SpecExport == InitExport /\ [][NextExport]_vars

-----------------------------------------------------------------------------
(* Playback of the take: playMidiRecording, stopMidiPlayback, deleteRecording *)

\* The id setTimeout returns: one that no pending timeout and not the ref holds
FreshTimerId(tms) ==
  CHOOSE i \in 1..(MaxChains + 2) :
    i # playbackTimerRef /\ \A t \in tms : t.id # i

\* playNextNote of the closure holding sortedNotes, run with the pending
\* timeouts tms: whether it ended the playback (setIsPlaying(false)), and the
\* index, the ref and the pending timeouts it leaves
playNextNote(sortedNotes, tms) ==
  LET idx == currentNoteIndexRef
  IN IF idx >= Len(sortedNotes)
     THEN [ended |-> TRUE, index |-> idx, ref |-> 0,
           timers |-> {t \in tms : t.id # playbackTimerRef}]
     ELSE LET nextIdx == idx + 1
              id == FreshTimerId(tms)
          IN [ended |-> FALSE, index |-> nextIdx, ref |-> id,
              timers |-> tms \cup
                {[id |-> id,
                  kind |-> IF nextIdx < Len(sortedNotes) THEN "next" ELSE "end",
                  notes |-> sortedNotes]}]

\* What playNextNote of the closure holding sortedNotes does to the live
\* synth: triggerAttackRelease has the synth release the voice by itself
\* after the duration, triggerAttack (duration 0) leaves the voice sounding
PlayedAfter(sortedNotes) ==
  IF currentNoteIndexRef >= Len(sortedNotes) THEN played
  ELSE Append(played, currentNoteIndexRef + 1)

VoicesAfter(sortedNotes) ==
  IF currentNoteIndexRef >= Len(sortedNotes) THEN voices
  ELSE LET note == sortedNotes[currentNoteIndexRef + 1]
       IN IF note.duration > 0 THEN voices ELSE voices \cup {note.note}

\* playMidiRecording up to Tone.start(); Play is offered while
\* recordedNotes.length > 0 && !isRecording, and bound to this handler
\* while !isPlaying
playMidiRecording ==
  /\ Len(recordedNotes) # 0
  /\ ~isPlaying
  /\ ~isRecording
  /\ Len(pendingStarts) + Cardinality(timers) < MaxChains
  /\ currentNoteIndexRef' = 0
  /\ pendingStarts' = Append(pendingStarts, recordedNotes)
  /\ stopped' = FALSE
  /\ voices' = {}
  /\ played' = <<>>
  /\ UNCHANGED <<captureVars, recordedNotes, encVars, vlqVars, wavVars,
                 renderVars, exportVars, modalVars, isPlaying,
                 playbackTimerRef, timers, toneContext, synthContext,
                 previewVars, saveVars>>

\* Tone.start().then(() => { ... setIsPlaying(true); ... playNextNote() })
toneStarted(i) ==
  /\ i \in 1..Len(pendingStarts)
  /\ LET r == playNextNote(SortByTimestamp(pendingStarts[i]), timers)
     IN /\ isPlaying' = ~r.ended
        /\ currentNoteIndexRef' = r.index
        /\ playbackTimerRef' = r.ref
        /\ timers' = r.timers
  /\ played' = PlayedAfter(SortByTimestamp(pendingStarts[i]))
  /\ voices' = VoicesAfter(SortByTimestamp(pendingStarts[i]))
  /\ pendingStarts' = [k \in 1..(Len(pendingStarts) - 1) |->
                         IF k < i THEN pendingStarts[k] ELSE pendingStarts[k + 1]]
  /\ UNCHANGED <<captureVars, recordedNotes, encVars, vlqVars, wavVars,
                 renderVars, exportVars, modalVars, stopped, toneContext, synthContext,
                 previewVars, saveVars>>

\* Tone.start() ... .catch(err => { setIsPlaying(false) })
toneStartFailed(i) ==
  /\ i \in 1..Len(pendingStarts)
  /\ isPlaying' = FALSE
  /\ pendingStarts' = [k \in 1..(Len(pendingStarts) - 1) |->
                         IF k < i THEN pendingStarts[k] ELSE pendingStarts[k + 1]]
  /\ UNCHANGED <<captureVars, recordedNotes, encVars, vlqVars, wavVars,
                 renderVars, exportVars, modalVars, currentNoteIndexRef,
                 playbackTimerRef, timers, stopped, moreVars>>

\* a timeout set by playNextNote fires: playNextNote again, or the final
\* () => { setIsPlaying(false) }
playbackTimeout(t) ==
  /\ t \in timers
  /\ IF t.kind = "next"
     THEN LET r == playNextNote(t.notes, timers \ {t})
          IN /\ isPlaying' = (IF r.ended THEN FALSE ELSE isPlaying)
             /\ currentNoteIndexRef' = r.index
             /\ playbackTimerRef' = r.ref
             /\ timers' = r.timers
             /\ played' = PlayedAfter(t.notes)
             /\ voices' = VoicesAfter(t.notes)
     ELSE /\ isPlaying' = FALSE
          /\ timers' = timers \ {t}
          /\ UNCHANGED <<currentNoteIndexRef, playbackTimerRef, played,
                         voices>>
  /\ UNCHANGED <<captureVars, recordedNotes, encVars, vlqVars, wavVars,
                 renderVars, exportVars, modalVars, pendingStarts, stopped, toneContext, synthContext,
                 previewVars, saveVars>>

\* stopMidiPlayback; the button is bound to it while isPlaying
stopMidiPlayback ==
  /\ isPlaying
  /\ timers' = {t \in timers : t.id # playbackTimerRef}
  /\ playbackTimerRef' = 0
  /\ isPlaying' = FALSE
  /\ stopped' = TRUE
  /\ voices' = {}
  /\ UNCHANGED <<captureVars, recordedNotes, encVars, vlqVars, wavVars,
                 renderVars, exportVars, modalVars, currentNoteIndexRef,
                 pendingStarts, toneContext, synthContext, played,
                 previewVars, saveVars>>

\* deleteRecording, confirmed by the user; Delete is offered while
\* recordedNotes.length > 0 && !isRecording
deleteRecording ==
  /\ Len(recordedNotes) # 0
  /\ ~isRecording
  /\ recordedNotes' = <<>>
  /\ recordingTime' = 0
  /\ IF isPlaying
     THEN /\ timers' = {t \in timers : t.id # playbackTimerRef}
          /\ playbackTimerRef' = 0
          /\ isPlaying' = FALSE
          /\ stopped' = TRUE
          /\ voices' = {}
     ELSE UNCHANGED <<timers, playbackTimerRef, isPlaying, stopped, voices>>
  /\ UNCHANGED <<now, connected, pendingInit, midiEnabled, selectedInput,
                 connectionError, isRecording, timerRef, listeners, dispatch,
                 midiInputs, timerDue, encVars, vlqVars, wavVars, renderVars,
                 exportVars, modalVars, currentNoteIndexRef, pendingStarts, toneContext, synthContext, played,
                 previewVars, saveVars>>

PlayPitches == {60}
PlayTimes == {0, 250}
PlayDurations == {0, 500}

\* Takes as the capture leaves them, of one event at least
PlayTakes ==
  {t \in UNION {[1..n -> [note : PlayPitches, velocity : {800},
                          timestamp : PlayTimes, duration : PlayDurations,
                          type : {"noteon"}]] : n \in 1..MaxTake} :
     \A i, j \in 1..Len(t) : i < j => t[i].timestamp <= t[j].timestamp}

InitPlay ==
  /\ CaptureStopped
  /\ recordingTime = 0
  /\ recordedNotes \in PlayTakes
  /\ EncIdle /\ VlqIdle /\ LaterIdle

NextPlay ==
  \/ playMidiRecording
  \/ \E i \in 1..MaxChains : toneStarted(i)
  \/ \E i \in 1..MaxChains : toneStartFailed(i)
  \/ \E t \in timers : playbackTimeout(t)
  \/ stopMidiPlayback
  \/ deleteRecording

SpecPlay == InitPlay /\ [][NextPlay]_vars

-----------------------------------------------------------------------------
(* A reader of Standard MIDI Files, as the format defines it *)

\* The variable-length quantity of v: 7-bit groups, most significant first,
\* bit 7 set on every byte but the last
RECURSIVE StdVlq(_)
StdVlq(v) ==
  IF v < 128 THEN <<v>>
  ELSE LET high == StdVlq(v \div 128)
       IN [i \in 1..Len(high) |-> IF high[i] < 128 THEN high[i] + 128 ELSE high[i]]
          \o <<v % 128>>

\* The variable-length quantity read at b[pos]: its value, the position after
\* it, and whether it ended inside b
RECURSIVE StdReadVlq(_, _, _)
StdReadVlq(b, pos, acc) ==
  IF pos > Len(b) THEN [value |-> acc, next |-> pos, ok |-> FALSE]
  ELSE IF b[pos] >= 128
       THEN StdReadVlq(b, pos + 1, acc * 128 + (b[pos] - 128))
       ELSE [value |-> acc * 128 + b[pos], next |-> pos + 1, ok |-> TRUE]

ReadU32(b, pos) ==
  b[pos] * 16777216 + b[pos + 1] * 65536 + b[pos + 2] * 256 + b[pos + 3]

\* The events of a track: note events as [tick, status, note, velocity]; ok
\* tells that the data was read through to an End of Track that closes it.
RECURSIVE StdReadTrack(_, _, _)
StdReadTrack(b, pos, tick) ==
  LET d == StdReadVlq(b, pos, 0)
      p == d.next
      t == tick + d.value
      failed == [events |-> <<>>, ok |-> FALSE]
  IN IF ~d.ok \/ p > Len(b) THEN failed
     ELSE IF b[p] = 255
     THEN IF p + 2 > Len(b) THEN failed
          ELSE LET len == StdReadVlq(b, p + 2, 0)
               IN IF ~len.ok THEN failed
                  ELSE IF b[p + 1] = 47
                  THEN [events |-> <<>>,
                        ok |-> len.value = 0 /\ len.next = Len(b) + 1]
                  ELSE IF len.next + len.value > Len(b) THEN failed
                  ELSE StdReadTrack(b, len.next + len.value, t)
     ELSE IF b[p] \in {128, 144}
     THEN IF p + 2 > Len(b) \/ b[p + 1] >= 128 \/ b[p + 2] >= 128 THEN failed
          ELSE LET rest == StdReadTrack(b, p + 3, t)
               IN [events |-> <<[tick |-> t, status |-> b[p], note |-> b[p + 1],
                                 velocity |-> b[p + 2]]>> \o rest.events,
                   ok |-> rest.ok]
     ELSE failed

\* The data of the second track chunk of a file, located through the length
\* fields of the chunks
NoteTrackOf(file) ==
  LET first == 15
      firstLen == ReadU32(file, first + 4)
      second == first + 8 + firstLen
      secondLen == ReadU32(file, second + 4)
  IN SubSeq(file, second + 8, second + 7 + secondLen)

\* Note-offs paired with the oldest open note-on of their pitch: the notes
\* as [note, onTick, durationTicks]
RECURSIVE StdPairNotes(_, _)
StdPairNotes(events, open) ==
  IF events = <<>> THEN {}
  ELSE LET e == Head(events)
           hits == {k \in 1..Len(open) : open[k].note = e.note}
       IN IF e.status = 144 /\ e.velocity > 0
          THEN StdPairNotes(Tail(events), Append(open, e))
          ELSE IF hits = {} THEN StdPairNotes(Tail(events), open)
          ELSE LET k == MinOf(hits)
               IN {[note |-> e.note, onTick |-> open[k].tick,
                    durationTicks |-> e.tick - open[k].tick]}
                  \cup StdPairNotes(Tail(events),
                                    SubSeq(open, 1, k - 1)
                                    \o SubSeq(open, k + 1, Len(open)))

Abs(x) == IF x < 0 THEN 0 - x ELSE x

-----------------------------------------------------------------------------
(* Properties of the encoder *)

\* The input events that convertNotesToMidiFile is to encode
Qualifying(notes) == {k \in 1..Len(notes) : notes[k].duration > 0}

\* Ticks of ms milliseconds at 960 ticks and 120000 microseconds per quarter
RefTicks(ms) == (ms * 1000 * 960) \div 120000

\* What a standard reader gets from the note track of the file
ReadNoteTrack == StdReadTrack(NoteTrackOf(midiFile), 1, 0)

\* The bytes of the note track after the track-name event as it was written
EventRegion ==
  LET track == NoteTrackOf(midiFile)
  IN SubSeq(track, 5 + Len(trackName(fileName)), Len(track))

\* C1: for every value d >= 0, encodeVariableLength(d) is the standard MIDI
\* variable-length quantity of d (7-bit groups, most significant first,
\* bit 7 set on all bytes but the last), so a standard reader decodes it to d.
C1_VlqIsStandard ==
  (vlqPc = "done" /\ value >= 0) =>
    /\ vlqBytes = StdVlq(value)
    /\ StdReadVlq(vlqBytes, 1, 0) =
         [value |-> value, next |-> Len(vlqBytes) + 1, ok |-> TRUE]

\* C2: for every take (saved under the default name), a standard reader of
\* the encoded file gets exactly the notes of the take that have a duration
\* > 0, as (pitch, onset, duration), each within one tick of the original.
C2_RoundTrip ==
  (encPc = "done" /\ fileName = DefaultFileName) =>
    LET got == StdPairNotes(ReadNoteTrack.events, <<>>)
        want == {[note |-> recordedNotes[k].note,
                  onTick |-> RefTicks(recordedNotes[k].timestamp),
                  durationTicks |-> RefTicks(recordedNotes[k].duration)] :
                 k \in Qualifying(recordedNotes)}
        Close(a, b) == /\ a.note = b.note
                       /\ Abs(a.onTick - b.onTick) <= 1
                       /\ Abs(a.durationTicks - b.durationTicks) <= 1
    IN /\ ReadNoteTrack.ok
       /\ \A w \in want : \E g \in got : Close(w, g)
       /\ \A g \in got : \E w \in want : Close(w, g)

\* C3: Scenario A.  For the take of the single event (pitch 60, velocity
\* 0.8, any onset, 500 ms) saved under the default name, a standard reader
\* finds one note-on (pitch 60, velocity about 102) and one note-off (pitch
\* 60) in the note track, 4000 ticks apart.
C3_ScenarioA ==
  (/\ encPc = "done"
   /\ fileName = DefaultFileName
   /\ Len(recordedNotes) = 1
   /\ recordedNotes[1].note = 60
   /\ recordedNotes[1].velocity = 800
   /\ recordedNotes[1].duration = 500) =>
    LET ev == ReadNoteTrack.events
    IN /\ ReadNoteTrack.ok
       /\ Len(ev) = 2
       /\ ev[1].status = 144 /\ ev[1].note = 60
       /\ Abs(ev[1].velocity - 102) <= 1
       /\ ev[2].status = 128 /\ ev[2].note = 60
       /\ ev[2].tick - ev[1].tick = 4000

\* C6: the length field of the track-name meta-event is a valid
\* variable-length quantity equal to the number of name bytes after it, so
\* that a standard reader finds the first event right after the name.
C6_TrackNameLength ==
  encPc = "done" =>
    LET track == NoteTrackOf(midiFile)
        len == StdReadVlq(track, 4, 0)
        after == len.next + len.value
    IN /\ SubSeq(track, 1, 3) = <<0, 255, 3>>
       /\ len.ok
       /\ len.value = Len(trackName(fileName))
       /\ after <= Len(track)
       /\ SubSeq(track, len.next, after - 1) = ToUint8(trackName(fileName))
       /\ SubSeq(track, after, Len(track)) = EventRegion

\* C7: the note track holds exactly one note-on and one note-off for each
\* input event with duration > 0 and none for an event with duration 0 (the
\* events counted per pitch in the bytes that follow the track name); when
\* no input event has a duration > 0 the track is the track name followed by
\* End of Track.
C7_OnlyPositiveDurationsEncoded ==
  encPc = "done" =>
    LET r == StdReadTrack(EventRegion, 1, 0)
        Count(status, p) ==
          Cardinality({k \in 1..Len(r.events) :
                         r.events[k].status = status /\ r.events[k].note = p})
        Inputs(p) ==
          Cardinality({k \in Qualifying(recordedNotes) : recordedNotes[k].note = p})
    IN /\ r.ok
       /\ \A p \in 0..127 : Count(144, p) = Inputs(p) /\ Count(128, p) = Inputs(p)
       /\ Len(r.events) = 2 * Cardinality(Qualifying(recordedNotes))
       /\ Qualifying(recordedNotes) = {} =>
            NoteTrackOf(midiFile) = ToUint8(TrackNameEvent(fileName)) \o <<0, 255, 47, 0>>

C7_Witness ==
  /\ encPc = "done"
  /\ Len(recordedNotes) = 2
  /\ recordedNotes[1].duration = 0
  /\ recordedNotes[2].duration > 0
  /\ Len(StdReadTrack(EventRegion, 1, 0).events) = 2

\* floor(127 * v) for the velocity v given in thousandths
Floor127(velocity) == (127 * velocity) \div 1000

\* C11: for every recorded velocity v in [0.0, 1.0] the velocity byte of the
\* encoded note-on is floor(127 * v) when that is not zero and 64 when it is
\* zero, so the byte always lies in 1..127.
C11_VelocityByte ==
  encPc = "done" =>
    LET r == StdReadTrack(EventRegion, 1, 0)
        Expected(v) == IF Floor127(v) = 0 THEN 64 ELSE Floor127(v)
        Written(p, b) ==
          Cardinality({k \in 1..Len(r.events) :
                         /\ r.events[k].status = 144
                         /\ r.events[k].note = p
                         /\ r.events[k].velocity = b})
        Inputs(p, b) ==
          Cardinality({k \in Qualifying(recordedNotes) :
                         /\ recordedNotes[k].note = p
                         /\ Expected(recordedNotes[k].velocity) = b})
    IN /\ r.ok
       /\ \A k \in 1..Len(r.events) :
            r.events[k].status = 144 => r.events[k].velocity \in 1..127
       /\ \A p \in EncPitches :
            \A b \in {r.events[k].velocity : k \in 1..Len(r.events)}
                     \cup {Expected(recordedNotes[k].velocity) :
                              k \in Qualifying(recordedNotes)} :
              Written(p, b) = Inputs(p, b)

\* a velocity whose computed byte is zero has been written as 64
C11_Witness ==
  /\ encPc = "done"
  /\ Len(recordedNotes) = 1
  /\ recordedNotes[1].velocity = 7
  /\ recordedNotes[1].duration > 0
  /\ EventRegion[4] = 64

\* C12: encoding the same event sequence again gives the same bytes as the
\* call before, whatever happened in the component between the two calls.
C12_SameBytesAgain == [][convertAgain => midiFile' = midiFile]_vars

\* The delta-time the encoder writes for the i-th event: deltaTick as
\* encodeVariableLength takes it (a negative value is written as 0)
WrittenDelta(events, i) == Max2(0, deltaTick(events, i))

C9_EightTicksPerMs ==
  encPc = "done" =>
    LET sorted == SortByTimestamp(recordedNotes)
        kept == SelectSeq(sorted, LAMBDA n : n.duration > 0)
        ons == CollectNoteOn(sorted)
        offs == CollectNoteOff(sorted)
    IN /\ Len(ons) = Len(kept) /\ Len(offs) = Len(kept)
       /\ \A k \in 1..Len(kept) :
            /\ ons[k].tick = 8 * kept[k].timestamp
            /\ offs[k].tick = 8 * (kept[k].timestamp + kept[k].duration)
            /\ offs[k].tick - ons[k].tick = 8 * kept[k].duration
            /\ offs[k].tick - ons[k].tick > 0

C9_Witness ==
  /\ encPc = "done"
  /\ \E k \in 1..Len(recordedNotes) :
       recordedNotes[k].timestamp = 16 /\ recordedNotes[k].duration = 500

\* C10: the output is the header chunk (MThd, length 6, format 1, 2 tracks,
\* division 960) and two MTrk chunks, each length field being the number of
\* bytes of track data after it, so that the second chunk ends the file.
C10_ChunkLayout ==
  encPc = "done" =>
    LET f == midiFile
        firstLen == ReadU32(f, 19)
        second == 23 + firstLen
        secondLen == ReadU32(f, second + 4)
    IN /\ Len(f) >= 41
       /\ SubSeq(f, 1, 14) = <<77, 84, 104, 100, 0, 0, 0, 6, 0, 1, 0, 2, 3, 192>>
       /\ SubSeq(f, 15, 18) = <<77, 84, 114, 107>>
       /\ firstLen = 19
       /\ StdReadTrack(SubSeq(f, 23, 22 + firstLen), 1, 0).ok
       /\ SubSeq(f, second, second + 3) = <<77, 84, 114, 107>>
       /\ secondLen = Len(noteTrackData(recordedNotes, fileName))
       /\ Len(f) = 14 + 8 + firstLen + 8 + secondLen
       /\ SubSeq(f, Len(f) - 3, Len(f)) = <<0, 255, 47, 0>>

C10_Witness ==
  /\ encPc = "done"
  /\ fileName = NameOfLength(112)
  /\ Len(recordedNotes) = 1
  /\ Len(midiFile) > 14 + 8 + 19 + 8 + 128

-----------------------------------------------------------------------------
(* Properties of the capture *)

\* The events a note-off of pitch p can close
OpenIndices(notes, p) ==
  {k \in 1..Len(notes) : notes[k].note = p /\ notes[k].duration = 0}

MaxOf(S) == CHOOSE x \in S : \A y \in S : x >= y

\* A step in which the noteoff listener runs
NoteOffStep ==
  /\ dispatch # <<>>
  /\ Head(dispatch).kind = "noteoff"
  /\ dispatch' = Tail(dispatch)

\* Same-pitch events are nested: an event that was closed after a later one
\* began was closed no earlier than that later one
Nested(notes) ==
  \A i, j \in 1..Len(notes) :
    (/\ i < j
     /\ notes[i].note = notes[j].note
     /\ notes[i].duration > 0
     /\ notes[i].timestamp + notes[i].duration > notes[j].timestamp) =>
      /\ notes[j].duration > 0
      /\ notes[j].timestamp + notes[j].duration
           <= notes[i].timestamp + notes[i].duration

\* C4: a note-off of pitch p, when the buffer holds events of pitch p with
\* duration 0, sets the duration of the last of them to offMs - timestamp
\* and changes no other event; hence same-pitch events that overlap are
\* closed last-opened first (on, on, off, off at increasing times leaves two
\* events with duration > 0, the second inside the first).
C4_NoteOffClosesMostRecent ==
  [][/\ (NoteOffStep /\ OpenIndices(recordedNotes, Head(dispatch).note) # {}) =>
          LET k == MaxOf(OpenIndices(recordedNotes, Head(dispatch).note))
              offMs == now - Head(dispatch).startTime
          IN recordedNotes' =
               [recordedNotes EXCEPT
                  ![k].duration = offMs - recordedNotes[k].timestamp]
     /\ Nested(recordedNotes')]_vars

C4_Witness ==
  /\ dispatch = <<>>
  /\ Len(recordedNotes) = 2
  /\ recordedNotes[1].note = recordedNotes[2].note
  /\ recordedNotes[1].timestamp < recordedNotes[2].timestamp
  /\ recordedNotes[2].duration > 0
  /\ recordedNotes[2].timestamp + recordedNotes[2].duration
       < recordedNotes[1].timestamp + recordedNotes[1].duration

\* C5: a note-off of a pitch with no event of duration 0 in the buffer (the
\* buffer may be empty) leaves the recorded events as they are and raises no
\* error.
C5_OrphanNoteOffIgnored ==
  [][(NoteOffStep /\ OpenIndices(recordedNotes, Head(dispatch).note) = {}) =>
       /\ recordedNotes' = recordedNotes
       /\ connectionError' = connectionError
       /\ isRecording' = isRecording]_vars

C5_Witness ==
  /\ dispatch # <<>>
  /\ Head(dispatch).kind = "noteoff"
  /\ isRecording
  /\ recordedNotes # <<>>
  /\ \E k \in 1..Len(recordedNotes) :
       recordedNotes[k].note = Head(dispatch).note /\ recordedNotes[k].duration > 0
  /\ OpenIndices(recordedNotes, Head(dispatch).note) = {}

-----------------------------------------------------------------------------
(* Properties of the WAV writer *)

\* Little-endian fields of a file, read at a byte offset counted from 0
ReadU16LE(f, offset) == f[offset + 1] + 256 * f[offset + 2]
ReadU32LE(f, offset) ==
  f[offset + 1] + 256 * f[offset + 2] + 65536 * f[offset + 3]
    + 16777216 * f[offset + 4]
ReadS16LE(f, offset) ==
  LET u == ReadU16LE(f, offset) IN IF u >= 32768 THEN u - 65536 ELSE u

\* The header canonical for the buffer in audioData
WavHeaderOk(f) ==
  LET frames == Len(audioData) \div numChannels
      size == frames * numChannels * 2
  IN /\ Len(f) = 44 + size
     /\ SubSeq(f, 1, 4) = <<82, 73, 70, 70>>
     /\ ReadU32LE(f, 4) = 36 + size
     /\ ReadU16LE(f, 20) = 1
     /\ ReadU16LE(f, 22) = numChannels
     /\ ReadU32LE(f, 24) = sampleRate
     /\ ReadU32LE(f, 28) = sampleRate * numChannels * 2
     /\ ReadU16LE(f, 32) = numChannels * 2
     /\ ReadU16LE(f, 34) = 16
     /\ ReadU32LE(f, 40) = size

\* C13: for a buffer of N frames of C channels at rate R, createWaveFile
\* writes dataSize = N*C*2 at offset 40, 36 + dataSize at offset 4, block
\* align C*2, byte rate R*C*2, 16 bits per sample, format 1, and returns
\* 44 + dataSize bytes; the recorder's and the modal's copy return the same
\* bytes.
C13_WavHeader ==
  /\ wavFile # <<>> => WavHeaderOk(wavFile)
  /\ modalWavFile # <<>> => WavHeaderOk(modalWavFile)
  /\ (wavFile # <<>> /\ modalWavFile # <<>>) => wavFile = modalWavFile

C13_Witness ==
  /\ numChannels = 2
  /\ Len(audioData) = 4
  /\ Len(wavFile) = 52
  /\ Len(modalWavFile) = 52

\* The 16-bit value of the sample s (in thousandths): s clamped to [-1, 1],
\* times 32768 when negative and times 32767 otherwise, as an integer
PcmOk(f, i) ==
  LET x == audioData[i]
      c == IF x < 0 - 1000 THEN 0 - 1000 ELSE IF x > 1000 THEN 1000 ELSE x
      exact == IF c < 0 THEN c * 32768 ELSE c * 32767
      v == ReadS16LE(f, 44 + 2 * (i - 1))
  IN /\ v \in (0 - 32768)..32767
     /\ Abs(1000 * v - exact) < 1000
     /\ x <= 0 - 1000 => v = 0 - 32768
     /\ x >= 1000 => v = 32767
     /\ x = 0 => v = 0
     /\ \A j \in 1..Len(audioData) :
          audioData[j] <= x => ReadS16LE(f, 44 + 2 * (j - 1)) <= v

\* C14: floatTo16BitPCM writes for every sample, values outside [-1, 1]
\* included, the clamped sample scaled by 32768 (negative) or 32767
\* (non-negative) as a 16-bit value: -32768 at s <= -1, 32767 at s >= 1,
\* 0 at s = 0, monotone in s and never wrapped; in both copies.
C14_FloatTo16BitPCM ==
  /\ wavFile # <<>> =>
       /\ \A i \in 1..Len(audioData) : PcmOk(wavFile, i)
       /\ \A i \in 1..Len(audioData) :
            ReadS16LE(wavFile, 44 + 2 * (i - 1))
              <= ReadS16LE(floatTo16BitPCM(<<audioData[i] + 1>>), 0)
  /\ modalWavFile # <<>> =>
       /\ \A i \in 1..Len(audioData) : PcmOk(modalWavFile, i)
       /\ \A i \in 1..Len(audioData) :
            ReadS16LE(modalWavFile, 44 + 2 * (i - 1))
              <= ReadS16LE(modalFloatTo16BitPCM(<<audioData[i] + 1>>), 0)

\* a sample above 1 has been written as 32767
C14_Witness ==
  /\ audioData = <<1500>>
  /\ Len(wavFile) = 46
  /\ ReadS16LE(wavFile, 44) = 32767
  /\ modalWavFile = wavFile

-----------------------------------------------------------------------------
(* Properties of the audio exports *)

\* The recorder's export is the one under way (the modal is not mounted)
RecorderExport == midiData.state = "closed"

\* The end of the last event of a take / of a parsed file, in ms
TakeEnd(notes) ==
  MaxOf({0} \cup {notes[k].timestamp + notes[k].duration : k \in 1..Len(notes)})
FileEnd(notes) ==
  MaxOf({0} \cup {notes[k].time + notes[k].duration : k \in 1..Len(notes)})

\* C15: the offline render context of an export is as long as the end of
\* the last event (max of onset + duration) plus 3 seconds, in the recorder
\* whatever the number of timer ticks counted, and in the preview modal.
C15_RenderLength ==
  offlineContext # NoContext =>
    IF RecorderExport
    THEN offlineContext.length = TakeEnd(recordedNotes) + 3000
    ELSE offlineContext.length = FileEnd(midiData.notes) + 3000

\* C16: an export of no events, or of events that all have duration 0,
\* renders nothing, downloads nothing and shows an error; in the recorder
\* and in the preview modal.
C16_NoRenderableNotes ==
  /\ Qualifying(recordedNotes) = {} =>
       /\ exportPc \notin {"primary", "fallback"}
       /\ exportPc = "finished" => saveError \in {"noData", "failed"}
       /\ RecorderExport => downloaded = <<>>
  /\ (midiData.state = "parsed"
        /\ \A k \in 1..Len(midiData.notes) : midiData.notes[k].duration = 0) =>
       /\ modalPc # "rendering"
       /\ modalPc = "finished" =>
            exportStatus.error \in {"noNotes", "couldNotProcess"}
       /\ downloaded = <<>>
       /\ ~audioGenerated

\* Calls on the offline synth for an event of the given pitch, onset and
\* duration
CallsFor(name, start, dur) ==
  Cardinality({c \in 1..Len(scheduled) :
                 /\ scheduled[c].noteName = name
                 /\ scheduled[c].startTime = start
                 /\ scheduled[c].duration = dur})

\* C17: when the synth rejects no note, every event with duration > 0 is
\* scheduled on the offline synth exactly once, at its onset and with its
\* duration, however late its onset, and no event with duration 0 is
\* scheduled; in the recorder and in the preview modal.
C17_EveryNoteScheduledOnce ==
  (offlineContext # NoContext /\ synthRejects = {}) =>
    IF RecorderExport
    THEN /\ Len(scheduled) = Cardinality(Qualifying(recordedNotes))
         /\ \A k \in Qualifying(recordedNotes) :
              CallsFor([name |-> recordedNotes[k].note % 12,
                        octave |-> (recordedNotes[k].note \div 12) - 1],
                       recordedNotes[k].timestamp, recordedNotes[k].duration)
                = Cardinality({j \in Qualifying(recordedNotes) :
                                 /\ recordedNotes[j].note = recordedNotes[k].note
                                 /\ recordedNotes[j].timestamp = recordedNotes[k].timestamp
                                 /\ recordedNotes[j].duration = recordedNotes[k].duration})
    ELSE LET ns == midiData.notes
             Q == {k \in 1..Len(ns) : ns[k].duration > 0}
         IN /\ Len(scheduled) = Cardinality(Q)
            /\ \A k \in Q :
                 CallsFor(ns[k].name, ns[k].time, ns[k].duration)
                   = Cardinality({j \in Q : /\ ns[j].name = ns[k].name
                                            /\ ns[j].time = ns[k].time
                                            /\ ns[j].duration = ns[k].duration})

\* C18: a note the synth rejects does not abort the export: every other
\* event that qualifies is still scheduled and the render goes ahead; in the
\* recorder and in the preview modal (where the events that qualify are
\* those the scheduling loop takes up: duration > 0, onset below the limit).
C18_SchedulingFailureTolerated ==
  offlineContext # NoContext =>
    IF RecorderExport
    THEN LET Ok == {k \in Qualifying(recordedNotes) :
                      recordedNotes[k].note \notin synthRejects}
         IN /\ Len(scheduled) = Cardinality(Ok)
            /\ (Ok # {} /\ exportPc = "finished") =>
                 (downloaded # <<>> \/ fallbacks > 0)
    ELSE LET ns == midiData.notes
             Ok == {k \in 1..Len(ns) : /\ ns[k].duration > 0
                                       /\ ns[k].time < ModalTimeLimit
                                       /\ ns[k].name \notin synthRejects}
         IN /\ Len(scheduled) = Cardinality(Ok)
            /\ (Ok # {} /\ modalPc = "finished") =>
                 exportStatus.error \in {"none", "renderFailed"}
            /\ (modalPc = "finished" /\ exportStatus.error = "couldNotProcess")
                 => Ok = {}

\* C19: in the recorder's export a failed stereo render is followed by
\* exactly one fallback render of the same events on a one-channel graph;
\* when it succeeds a 1-channel WAV is downloaded and the error message is
\* cleared, when it fails an error message is shown; there is never a
\* second fallback, and isSaving is false once the export has finished.
C19_OneFallback ==
  RecorderExport =>
    /\ fallbacks <= 1
    /\ downloaded \in {<<>>, <<1>>, <<2>>}
    /\ exportPc = "primary" => fallbacks = 0 /\ isSaving
    /\ exportPc = "fallback" =>
         /\ fallbacks = 1
         /\ isSaving
         /\ offlineContext.channels = 1
         /\ Len(scheduled) = Cardinality(Qualifying(recordedNotes))
         /\ downloaded = <<>>
    /\ exportPc = "finished" =>
         /\ ~isSaving
         /\ downloaded = <<2>> => fallbacks = 0 /\ saveError = "none"
         /\ downloaded = <<1>> => fallbacks = 1 /\ saveError = "none"
         /\ (fallbacks = 1 /\ downloaded = <<>>) => saveError = "failed"

\* the fallback render succeeded after the stereo render failed
C19_Witness ==
  /\ RecorderExport
  /\ exportPc = "finished"
  /\ fallbacks = 1
  /\ downloaded = <<1>>
  /\ offlineContext.channels = 1
  /\ saveError = "none"
  /\ ~isSaving

-----------------------------------------------------------------------------
(* Properties of the playback *)

\* A playback callback runs: the continuation of Tone.start() or a timeout
PlaybackCallback ==
  \/ \E i \in 1..MaxChains : toneStarted(i)
  \/ \E t \in timers : playbackTimeout(t)

\* C20: once stopMidiPlayback has run, no playback callback fires (and so no
\* note is triggered) until playMidiRecording is invoked again, whatever the
\* interleaving of Play, the pending audio-context start, timeouts, Stop
\* and Delete.
C20_NoCallbackAfterStop == [][stopped => ~PlaybackCallback]_vars

-----------------------------------------------------------------------------
(* Capture on a machine with two input ports that come and go *)

DeviceIds == {1, 2}         \* the ports of a machine with two MIDI inputs
DevicePitch == 60           \* the key followed on those ports
DeviceInstants == {1, TIMER_MS}

\* The operating system reports that a port went away. WebMidi drops the
\* Input from WebMidi.inputs; the component registers no handler for it.
disconnect(inputId) ==
  /\ Idle
  /\ inputId \in connected
  /\ connected' = connected \ {inputId}
  /\ UNCHANGED <<now, pendingInit, midiEnabled, selectedInput,
                 connectionError, isRecording, recordingTime, timerRef,
                 listeners, dispatch, midiInputs, timerDue, recordedNotes,
                 encVars, vlqVars, laterVars>>

\* A port (re)appears. Whether the Input object WebMidi hands out for it
\* still carries the listeners of the earlier object is the library's
\* choice: both outcomes are taken.
connect(inputId, keepsListeners) ==
  /\ Idle
  /\ inputId \notin connected
  /\ connected' = connected \cup {inputId}
  /\ listeners' = IF keepsListeners THEN listeners
                  ELSE [listeners EXCEPT ![inputId] = <<>>]
  /\ UNCHANGED <<now, pendingInit, midiEnabled, selectedInput,
                 connectionError, isRecording, recordingTime, timerRef,
                 dispatch, midiInputs, timerDue, recordedNotes,
                 encVars, vlqVars, laterVars>>

InitPorts(ports) ==
  /\ now = 0
  /\ connected = ports
  /\ pendingInit = 1
  /\ midiEnabled = FALSE
  /\ midiInputs = {}
  /\ selectedInput = 0
  /\ connectionError = "none"
  /\ isRecording = FALSE
  /\ recordingTime = 0
  /\ timerRef = FALSE
  /\ timerDue = 0
  /\ listeners = [i \in ports |-> <<>>]
  /\ dispatch = <<>>
  /\ recordedNotes = <<>>
  /\ EncIdle /\ VlqIdle /\ LaterIdle

InitDevice == InitPorts(DeviceIds)

\* The steps the user takes
UserStepDevice ==
  \/ initializeMidi
  \/ \E i \in DeviceIds : handleInputChange(i)
  \/ startRecording
  \/ stopRecording

\* The steps the runtime takes by itself: promise continuations, the interval
\* and the listeners of a message being delivered
ProgramStepDevice ==
  \/ initializeMidiEnabled
  \/ initializeMidiFailed
  \/ recordingTimer
  \/ noteOnListener
  \/ noteOffListener

\* The steps of the machine around the component: messages and the clock
WorldStepDevice ==
  \/ \E i \in DeviceIds, k \in {"noteon", "noteoff"}, a \in Velocities :
        midiMessage(i, k, DevicePitch, a)
  \/ \E t \in DeviceInstants : advanceClock(t)

NextDevice == UserStepDevice \/ ProgramStepDevice \/ WorldStepDevice

\* Two ports that stay plugged in
SpecDevice == InitDevice /\ [][NextDevice]_vars

\* One port that goes away and comes back
InitUnplug == InitPorts(InputIds)

UserStepUnplug ==
  \/ initializeMidi
  \/ \E i \in InputIds : handleInputChange(i)
  \/ startRecording
  \/ stopRecording

WorldStepUnplug ==
  \/ \E i \in InputIds : disconnect(i)
  \/ \E i \in InputIds, k \in BOOLEAN : connect(i, k)
  \/ \E i \in InputIds, k \in {"noteon", "noteoff"}, a \in Velocities :
        midiMessage(i, k, DevicePitch, a)
  \/ \E t \in DeviceInstants : advanceClock(t)

NextUnplug == UserStepUnplug \/ ProgramStepDevice \/ WorldStepUnplug

\* The runtime runs a continuation, an interval callback or a listener that
\* is due; nothing obliges the user, the ports or the keys to act.
SpecUnplug ==
  InitUnplug /\ [][NextUnplug]_vars /\ WF_vars(ProgramStepDevice)

NoListeners == \A i \in connected : listeners[i] = <<>>

\* C21: once stopRecording has run, no listener of the recording remains on
\* any input and the take is neither appended to nor patched until the next
\* startRecording, also when a refresh started before the recording resolves
\* during it and changes the selected input.
C21_TakeFrozenAfterStop ==
  /\ [](~isRecording => NoListeners)
  /\ [][(~isRecording /\ ~isRecording') => recordedNotes' = recordedNotes]_vars

\* C22: when the selected input goes away while a recording is in progress,
\* the capture comes to a stop by itself: isRecording becomes false and the
\* interval is cancelled, no user step being needed for it.
C22_StoppedOnDisconnect ==
  (isRecording /\ selectedInput \notin connected)
    ~> (~isRecording /\ ~timerRef)

\* No device to record from: MIDI is not enabled, no input is selected, or
\* the selected id resolves to no connected port
DeviceUnavailable ==
  selectedInput = 0 \/ ~midiEnabled \/ selectedInput \notin connected

\* C23: startRecording with no device available sets a connection error and
\* changes nothing else: isRecording stays false, no listener and no interval
\* is registered, and the recorded events and the recording time are as before.
C23_StartWithoutDevice ==
  [][(startRecording /\ DeviceUnavailable) =>
       /\ connectionError' \in {"noInputSelected", "inputNotFound"}
       /\ isRecording' = FALSE
       /\ listeners' = listeners
       /\ timerRef' = FALSE /\ timerDue' = timerDue
       /\ recordedNotes' = recordedNotes
       /\ recordingTime' = recordingTime]_vars

\* A start refused because the port is gone, with a take and a time to keep
C23_Witness ==
  /\ connectionError = "inputNotFound"
  /\ ~isRecording
  /\ recordedNotes # <<>>
  /\ recordingTime > 0

\* A step in which the noteon listener runs
NoteOnStep ==
  /\ dispatch # <<>>
  /\ Head(dispatch).kind = "noteon"
  /\ dispatch' = Tail(dispatch)

\* The events of after differ from those of before in at most one duration
OnlyOneDurationPatched(before, after) ==
  /\ Len(after) = Len(before)
  /\ \A k \in 1..Len(before) :
       after[k] = [before[k] EXCEPT !.duration = after[k].duration]
  /\ \A i, j \in 1..Len(before) :
       (after[i] # before[i] /\ after[j] # before[j]) => i = j

\* C24: a successful startRecording empties the take; a note-on received
\* during the capture appends exactly one event, of duration 0 and timestamp
\* now - t0, after the events already there; a note-off changes nothing but
\* the duration of at most one event; the number of events never decreases
\* during a capture.
C24_AppendOnlyCapture ==
  [][/\ (startRecording /\ isRecording') => recordedNotes' = <<>>
     /\ NoteOnStep =>
          /\ recordedNotes' =
               Append(recordedNotes,
                      [note |-> Head(dispatch).note,
                       velocity |-> Head(dispatch).attack,
                       timestamp |-> now - Head(dispatch).startTime,
                       duration |-> 0, type |-> "noteon"])
          /\ dispatch' = <<>>
     /\ NoteOffStep => OnlyOneDurationPatched(recordedNotes, recordedNotes')
     /\ (isRecording /\ isRecording') =>
          Len(recordedNotes') >= Len(recordedNotes)]_vars

\* C25: in every state of a capture every recorded event has a duration and
\* a timestamp that are not negative, and an event whose note-off arrives in
\* the millisecond of its note-on keeps duration 0, so that it is still open
\* for a later note-off of its pitch.
C25_NonNegativeTimes ==
  /\ [](\A k \in 1..Len(recordedNotes) :
          recordedNotes[k].duration >= 0 /\ recordedNotes[k].timestamp >= 0)
  /\ [][(NoteOffStep /\ OpenIndices(recordedNotes, Head(dispatch).note) # {}) =>
          LET k == MaxOf(OpenIndices(recordedNotes, Head(dispatch).note))
          IN now - Head(dispatch).startTime = recordedNotes[k].timestamp =>
               /\ recordedNotes'[k].duration = 0
               /\ k \in OpenIndices(recordedNotes', Head(dispatch).note)]_vars

\* C26: an offline export leaves the context Tone hands to new nodes as it
\* was, the real-time one, so that the live synth, whenever it is created,
\* is on the real-time context and never on an offline one.
C26_SeparateContexts ==
  toneContext = "realtime" /\ synthContext = "realtime"

\* C27: at any time one playback chain at most is active: never more than
\* one pending playback timeout advancing the shared index, and the notes of
\* the take are triggered once each, in the order of their timestamps.
C27_OnePlaybackChain ==
  /\ Cardinality(timers) <= 1
  /\ \A k \in 1..Len(played) : played[k] = k

\* Neither a capture nor a playback is under way or about to run
SynthAtRest ==
  /\ ~isRecording /\ dispatch = <<>>
  /\ ~isPlaying /\ timers = {} /\ pendingStarts = <<>>

\* C28: every voice attacked on the live synth is released without a Stop
\* being needed: once the capture was stopped or the playback came to its
\* end, no voice is sounding, events of duration 0 and keys held at the stop
\* included.
C28_NoVoiceLeftSounding == SynthAtRest => voices = {}

-----------------------------------------------------------------------------
(* The preview modal across the files it is shown for *)

PreviewFiles == {1, 2}      \* ids of the MIDI files of the project

\* The bytes the server returns for a file, as the notes they parse to
PreviewContent(f) ==
  [state |-> "parsed",
   notes |-> <<[name |-> IF f = 1 THEN 60 ELSE 64, velocity |-> 800,
                time |-> 0, duration |-> 500]>>]

\* The parent shows the modal for file f: the effect on [file, open] sets
\* loading and the preview URL and starts the fetch of the bytes. It touches
\* neither midiData nor audioGenerated nor a fetch already in flight.
openFile(f) ==
  /\ modalFile # f \/ ~modalOpen
  /\ modalFile' = f
  /\ modalOpen' = TRUE
  /\ loading' = TRUE
  /\ fetches' = fetches \cup {f}
  /\ UNCHANGED <<captureVars, recordedNotes, encVars, vlqVars, wavVars,
                 renderVars, exportVars, modalVars, playVars, liveVars,
                 midiDataOf, audioOf, rendering, saving, exported, saveVars>>

\* onClose: the parent hides the modal; the effect does nothing then
closeModal ==
  /\ modalOpen
  /\ modalOpen' = FALSE
  /\ UNCHANGED <<captureVars, recordedNotes, encVars, vlqVars, wavVars,
                 renderVars, exportVars, modalVars, playVars, liveVars,
                 modalFile, loading, fetches, midiDataOf, audioOf, rendering,
                 saving, exported, saveVars>>

\* fetch(url).then(response => response.arrayBuffer()).then(data => ...)
fetchResolved(f) ==
  /\ f \in fetches
  /\ fetches' = fetches \ {f}
  /\ midiData' = PreviewContent(f)
  /\ midiDataOf' = f
  /\ loading' = FALSE
  /\ UNCHANGED <<captureVars, recordedNotes, encVars, vlqVars, wavVars,
                 renderVars, exportVars, exportStatus, audioGenerated, modalPc,
                 playVars, liveVars, modalFile, modalOpen, audioOf, rendering,
                 saving, exported, saveVars>>

\* fetch(url) ... .catch(error => ...)
fetchFailed(f) ==
  /\ f \in fetches
  /\ fetches' = fetches \ {f}
  /\ loading' = FALSE
  /\ UNCHANGED <<captureVars, recordedNotes, encVars, vlqVars, wavVars,
                 renderVars, exportVars, modalVars, playVars, liveVars,
                 modalFile, modalOpen, midiDataOf, audioOf, rendering, saving,
                 exported, saveVars>>

\* 'Save Audio to Project', rendered while audioGenerated is set, up to the
\* first await: the WAV File is built from audioGenerated and named after
\* file.name
saveAudioToProject ==
  /\ modalOpen /\ ~loading /\ modalFile # 0
  /\ audioGenerated
  /\ ~exportStatus.loading
  /\ exportStatus' = [loading |-> TRUE, error |-> "preparing"]
  /\ saving' = [bytes |-> audioOf, name |-> modalFile]
  /\ UNCHANGED <<captureVars, recordedNotes, encVars, vlqVars, wavVars,
                 renderVars, exportVars, midiData, audioGenerated, modalPc,
                 playVars, liveVars, modalFile, modalOpen, loading, fetches,
                 midiDataOf, audioOf, rendering, exported, saveVars>>

\* filesAPI.uploadFile resolves (folder or project root)
saveUploaded ==
  /\ saving # NoFiles
  /\ exported' = exported \cup {[audio |-> saving.bytes, name |-> saving.name]}
  /\ exportStatus' = [loading |-> FALSE, error |-> "none"]
  /\ audioGenerated' = FALSE
  /\ audioOf' = 0
  /\ saving' = NoFiles
  /\ UNCHANGED <<captureVars, recordedNotes, encVars, vlqVars, wavVars,
                 renderVars, exportVars, midiData, modalPc, playVars,
                 liveVars, modalFile, modalOpen, loading, fetches, midiDataOf,
                 rendering, saveVars>>

\* The catch block of saveAudioToProject: the upload was rejected, or no
\* folder was found and the audio was downloaded instead
saveFailed(downloadedInstead) ==
  /\ saving # NoFiles
  /\ exported' = IF downloadedInstead
                 THEN exported \cup {[audio |-> saving.bytes,
                                      name |-> saving.name]}
                 ELSE exported
  /\ exportStatus' = [loading |-> FALSE, error |-> "saveFailed"]
  /\ saving' = NoFiles
  /\ UNCHANGED <<captureVars, recordedNotes, encVars, vlqVars, wavVars,
                 renderVars, exportVars, midiData, audioGenerated, modalPc,
                 playVars, liveVars, modalFile, modalOpen, loading, fetches,
                 midiDataOf, audioOf, rendering, saveVars>>

InitPreview ==
  /\ CaptureStopped
  /\ recordingTime = 0
  /\ recordedNotes = <<>>
  /\ EncIdle /\ VlqIdle /\ WavIdle /\ RenderIdle /\ ExportIdle /\ PlayIdle
  /\ MoreIdle
  /\ midiData = [state |-> "none", notes |-> <<>>]
  /\ exportStatus = [loading |-> FALSE, error |-> "none"]
  /\ audioGenerated = FALSE
  /\ modalPc = "ready"

NextPreview ==
  \/ \E f \in PreviewFiles : openFile(f)
  \/ closeModal
  \/ \E f \in PreviewFiles : fetchResolved(f)
  \/ \E f \in PreviewFiles : fetchFailed(f)
  \/ exportMidiAsAudio
  \/ modalRendered
  \/ modalRenderFailed
  \/ saveAudioToProject
  \/ saveUploaded
  \/ \E d \in BOOLEAN : saveFailed(d)

SpecPreview == InitPreview /\ [][NextPreview]_vars

\* The modal shows its buttons and no export or save is running
ButtonsOffered ==
  modalOpen /\ ~loading /\ modalFile # 0 /\ ~exportStatus.loading

\* C29: whenever the export or the save to the project can be triggered, the
\* bytes in midiData and the audio in audioGenerated are those of the file
\* previewed, and no audio was ever handed out (downloaded or uploaded)
\* under the name of another file than the one it was rendered from.
C29_AudioOfPreviewedFile ==
  /\ (ButtonsOffered /\ midiDataOf # 0) => midiDataOf = modalFile
  /\ (ButtonsOffered /\ audioGenerated) => audioOf = modalFile
  /\ \A e \in exported : e.audio = e.name

-----------------------------------------------------------------------------
(* Saving the take to the project: saveRecording *)

\* String.prototype.trim on a name of code units (32 is the space)
RECURSIVE TrimStart(_)
TrimStart(name) ==
  IF name # <<>> /\ Head(name) = 32 THEN TrimStart(Tail(name)) ELSE name

RECURSIVE TrimEnd(_)
TrimEnd(name) ==
  IF name # <<>> /\ name[Len(name)] = 32
  THEN TrimEnd(SubSeq(name, 1, Len(name) - 1))
  ELSE name

Trim(name) == TrimEnd(TrimStart(name))

DotMid == <<46, 109, 105, 100>>     \* '.mid'

\* The File Name field
handleFileNameChange(name) ==
  /\ name # fileName
  /\ fileName' = name
  /\ UNCHANGED <<captureVars, recordedNotes, midiFile, encPc, vlqVars,
                 laterVars>>

\* addTag, with tagInput.trim() = t (the field and the button are disabled
\* while saving)
addTag(t) ==
  /\ ~isSaving
  /\ \A k \in 1..Len(tags) : tags[k] # t
  /\ tags' = Append(tags, t)
  /\ UNCHANGED <<captureVars, recordedNotes, encVars, vlqVars, wavVars,
                 renderVars, exportVars, modalVars, playVars, liveVars,
                 previewVars, saveSuccess, upload, completions>>

\* removeTag (the chips are disabled while saving)
removeTag(tagToRemove) ==
  /\ ~isSaving
  /\ \E k \in 1..Len(tags) : tags[k] = tagToRemove
  /\ tags' = SelectSeq(tags, LAMBDA tag : tag # tagToRemove)
  /\ UNCHANGED <<captureVars, recordedNotes, encVars, vlqVars, wavVars,
                 renderVars, exportVars, modalVars, playVars, liveVars,
                 previewVars, saveSuccess, upload, completions>>

\* saveRecording up to its await filesAPI.uploadFile(...); the button is
\* disabled while isSaving
saveRecording ==
  /\ ~isSaving
  /\ Len(completions) < MaxSaves
  /\ IF Len(recordedNotes) = 0
     THEN /\ saveError' = "noMidiData"
          /\ UNCHANGED <<isSaving, upload>>
     ELSE IF Trim(fileName) = <<>>
     THEN /\ saveError' = "noFileName"
          /\ UNCHANGED <<isSaving, upload>>
     ELSE /\ saveError' = "none"
          /\ isSaving' = TRUE
          /\ upload' = [name |-> Trim(fileName) \o DotMid,
                        tags |-> tags,
                        bytes |-> convertNotesToMidiFile(recordedNotes,
                                                         fileName)]
  /\ UNCHANGED <<captureVars, recordedNotes, encVars, vlqVars, wavVars,
                 renderVars, exportPc, fallbacks, modalVars, playVars,
                 liveVars, previewVars, tags, saveSuccess, completions>>

\* the upload resolves: the rest of the try block, then finally
uploadSucceeded ==
  /\ upload # NoUpload
  /\ saveSuccess' = TRUE
  /\ fileName' = DefaultFileName
  /\ tags' = <<>>
  /\ recordedNotes' = <<>>
  /\ completions' = Append(completions, TRUE)
  /\ isSaving' = FALSE
  /\ upload' = NoUpload
  /\ UNCHANGED <<captureVars, midiFile, encPc, vlqVars, wavVars, renderVars,
                 saveError, exportPc, fallbacks, modalVars, playVars,
                 liveVars, previewVars>>

\* Mutant: the fields are reset in the finally block
uploadFailedClearsTake ==
  /\ upload # NoUpload
  /\ saveError' = "uploadFailed"
  /\ recordedNotes' = <<>>
  /\ completions' = Append(completions, FALSE)
  /\ isSaving' = FALSE
  /\ upload' = NoUpload
  /\ UNCHANGED <<captureVars, encVars, vlqVars, wavVars,
                 renderVars, exportPc, fallbacks, modalVars, playVars,
                 liveVars, previewVars, tags, saveSuccess>>

\* the upload rejects: the catch block, then finally
uploadFailed ==
  /\ upload # NoUpload
  /\ saveError' = "uploadFailed"
  /\ completions' = Append(completions, FALSE)
  /\ isSaving' = FALSE
  /\ upload' = NoUpload
  /\ UNCHANGED <<captureVars, recordedNotes, encVars, vlqVars, wavVars,
                 renderVars, exportPc, fallbacks, modalVars, playVars,
                 liveVars, previewVars, tags, saveSuccess>>

\* setTimeout(() => { setSaveSuccess(false) }, 5000)
saveSuccessTimeout ==
  /\ saveSuccess
  /\ saveSuccess' = FALSE
  /\ UNCHANGED <<captureVars, recordedNotes, encVars, vlqVars, wavVars,
                 renderVars, exportVars, modalVars, playVars, liveVars,
                 previewVars, tags, upload, completions>>

SaveTags == {"a", "b"}
SaveFileNames == {DefaultFileName, <<>>, <<32>>, <<32, 97, 32>>}
SaveTakes ==
  {<<>>,
   <<[note |-> 60, velocity |-> 800, timestamp |-> 0, duration |-> 500,
      type |-> "noteon"]>>}

InitSave ==
  /\ CaptureStopped
  /\ recordingTime = 0
  /\ recordedNotes \in SaveTakes
  /\ EncIdle /\ VlqIdle /\ LaterIdle

NextSave ==
  \/ \E name \in SaveFileNames : handleFileNameChange(name)
  \/ \E t \in SaveTags : addTag(t)
  \/ \E t \in SaveTags : removeTag(t)
  \/ saveRecording
  \/ uploadSucceeded
  \/ uploadFailed
  \/ saveSuccessTimeout

SpecSave == InitSave /\ [][NextSave]_vars

\* A step that ends an upload attempt
UploadEnds == upload # NoUpload /\ upload' = NoUpload

\* C30: with an empty take or a blank file name saveRecording uploads nothing
\* and shows an error; when the upload fails the events, the file name and
\* the tags stay as they are, an error is shown and onRecordingComplete(false)
\* is called; the events are cleared by a successful upload only; and every
\* upload attempt ends with isSaving false.
C30_TakeKeptOnFailure ==
  [][/\ (saveRecording /\ (Len(recordedNotes) = 0 \/ Trim(fileName) = <<>>)) =>
          /\ upload' = NoUpload /\ isSaving' = FALSE
          /\ saveError' \in {"noMidiData", "noFileName"}
          /\ UNCHANGED <<recordedNotes, fileName, tags, completions>>
     /\ UploadEnds =>
          /\ isSaving' = FALSE
          /\ Len(completions') = Len(completions) + 1
     /\ (UploadEnds /\ ~completions'[Len(completions')]) =>
          /\ UNCHANGED <<recordedNotes, fileName, tags>>
          /\ saveError' = "uploadFailed"
     /\ recordedNotes' # recordedNotes =>
          /\ UploadEnds
          /\ completions' = Append(completions, TRUE)
          /\ recordedNotes' = <<>>]_vars

\* An upload that failed, with the take, a typed name and a tag still there
C30_Witness ==
  /\ completions # <<>> /\ ~completions[Len(completions)]
  /\ saveError = "uploadFailed"
  /\ ~isSaving
  /\ recordedNotes # <<>>
  /\ fileName = <<32, 97, 32>>
  /\ tags # <<>>

====
